---- MODULE Spec2Model ----
(***************************************************************************)
(* Model of core/block_horizontal_scratch.js (Blockly.BlockSvg): the drag  *)
(* state machine (onMouseDown_, onMouseMove_, onMouseUp_, terminateDrag_),  *)
(* the hierarchy/position operations (setParent, moveBy, moveConnections_, *)
(* snapToGrid, getRelativeToSurfaceXY), dispose and render.                *)
(*                                                                         *)
(* A handler is a sequence of assignments, so every function of the source *)
(* is an operator from a state record to a state record; an action applies *)
(* one handler to the current state.                                       *)
(***************************************************************************)
EXTENDS Integers, Sequences, FiniteSets, TLC

VARIABLES
  dragMode_,              \* Blockly.dragMode_: 0 idle, 1 sticky, 2 free
  selected,               \* Blockly.selected
  highlightedConnection_, \* Blockly.highlightedConnection_
  localConnection_,       \* Blockly.localConnection_
  onMouseUpWrapper_,      \* Blockly.BlockSvg.onMouseUpWrapper_ (block bound, or Null)
  onMouseMoveWrapper_,    \* Blockly.BlockSvg.onMouseMoveWrapper_
  listeners,              \* <<event type, block>> -> number of bindings on document
  parentBlock_,           \* block -> parent block or Null
  childBlocks_,           \* block -> set of child blocks
  parentNode,             \* block -> DOM parent of svgGroup_: a block, Canvas or Null
  translate,              \* block -> translate(x,y) of svgGroup_'s transform
  svgGroup_,              \* block -> TRUE while svgGroup_ is not null
  workspace,              \* block -> TRUE while this.workspace is not null
  rendered,               \* block -> this.rendered
  height,                 \* block -> this.height
  width,                  \* block -> this.width
  dragStartXY_,           \* block -> this.dragStartXY_ (NoXY = null)
  draggedBubbles_,        \* block -> set of [bubble, x, y] captured at mouse down
  iconXY,                 \* block -> location of its bubble icon (NoXY = no icon)
  connXY,                 \* connection -> <<x_, y_>>
  targetConnection,       \* connection -> connection or Null
  highlightDrawn,         \* connections on which highlight() is in effect
  blocklySelected,        \* blocks carrying the 'blocklySelected' class
  translate_,             \* block -> group.translate_ as a point (NoXY = '' or unset)
  skew_,                  \* block -> TRUE when group.skew_ is a skewX(..)
  wiggleGroup,            \* Blockly.BlockSvg.disconnectUiStop_.group
  wigglePid,              \* group of the pending timeout disconnectUiStop_.pid names, or Null
  wiggleTimers,           \* group -> number of pending disconnectUiStep_ timeouts
  timers,                 \* pending goog.Timer.callOnce tasks: [fn, block, delay] -> count
  scale,                  \* workspace.scale as <<numerator, denominator>>
  movable,                \* block -> isMovable()
  deletable,              \* block -> isDeletable()
  warning,                \* block -> this.warning: whether it exists, and id -> text
  pid_,                   \* setWarningText.pid_: id -> the timeout registered (NoPid = no entry)
  timeouts,               \* <<block, id, text>> -> pending setTimeout calls of setWarningText
  gridOptions,            \* workspace.options.gridOptions: [present, snap, spacing]
  design,                 \* a stack of blocks by definition, top first: [previous, next, output, inputList]
  drawing,                \* what rendering and measuring the stack has produced so far
  fx,                     \* observable effects of the handler that ran last
  pendingCap              \* pending tasks of one kind per block the exploration follows

vars ==
  << dragMode_, selected, highlightedConnection_, localConnection_,
     onMouseUpWrapper_, onMouseMoveWrapper_, listeners, parentBlock_,
     childBlocks_, parentNode, translate, svgGroup_, workspace, rendered,
     height, width, dragStartXY_, draggedBubbles_, iconXY, connXY,
     targetConnection, highlightDrawn, blocklySelected, translate_, skew_,
     wiggleGroup, wigglePid, wiggleTimers, timers, scale, movable, deletable, warning,
     pid_, timeouts, gridOptions, design, drawing, fx, pendingCap >>

\* The state of the blocks and of the workspace.
core ==
  <<dragMode_, selected, highlightedConnection_, localConnection_,
    onMouseUpWrapper_, onMouseMoveWrapper_, listeners, parentBlock_,
    childBlocks_, parentNode, translate, svgGroup_, workspace, rendered,
    height, width, dragStartXY_, draggedBubbles_, iconXY, connXY,
    targetConnection, highlightDrawn, blocklySelected, translate_, skew_,
    wiggleGroup, wigglePid, wiggleTimers, timers, scale, movable, deletable, warning,
    pid_, timeouts, gridOptions>>

-----------------------------------------------------------------------------
(* Values *)

Null ==
  "null"

Canvas ==
  "canvas"

NoXY ==
  << >>

\* The pointer-derived positions (workspace.moveDrag) are MaxPoint + 1 points,
\* in pairs 4 units apart, the pairs 20 units apart on a 3-4-5 line.
MaxPoint ==
  2

\* At most MaxTimeouts timeouts of setWarningText with the same block, id and
\* text are outstanding.
MaxTimeouts ==
  2

\* Stacks of at most MaxChain blocks are drawn and measured.
MaxChain ==
  2

\* At most MaxPending deferred tasks of one kind are outstanding for a block
\* (one more where the pile-up of tasks is the subject).
MaxPending ==
  1

-----------------------------------------------------------------------------
(* Program constants *)

SEP_SPACE_X ==
  8

SEP_SPACE_Y ==
  8

NOTCH_HEIGHT ==
  32

CORNER_RADIUS ==
  4

DRAG_RADIUS ==
  5

SNAP_RADIUS ==
  15

BUMP_DELAY ==
  250

HAT_CORNER_RADIUS ==
  16

-----------------------------------------------------------------------------
(* The workspace under study: a hat block P with B chained after it, a     *)
(* free block C, and a palette (flyout) block F.                           *)

Blocks ==
  {"P", "B", "C", "F"}

isInFlyout ==
  [b \in Blocks |-> b = "F"]

Conns ==
  {"P.next", "B.prev", "B.next", "C.prev", "C.next"}

sourceBlock_ ==
  [c \in Conns |-> CASE c = "P.next" -> "P"
                     [] c \in {"B.prev", "B.next"} -> "B"
                     [] OTHER -> "C"]

connType ==
  [c \in Conns |-> IF c \in {"B.prev", "C.prev"} THEN "previous" ELSE "next"]

previousConnection ==
  [b \in Blocks |-> CASE b = "B" -> "B.prev" [] b = "C" -> "C.prev" [] OTHER -> Null]

nextConnection ==
  [b \in Blocks |-> CASE b = "P" -> "P.next" [] b = "B" -> "B.next"
                      [] b = "C" -> "C.next" [] OTHER -> Null]

\* this.inputList: the inputs with their field rows.  C declares two image
\* fields and a statement input; P and B have no image field.
inputList ==
  [b \in Blocks |->
     IF b = "C"
       THEN << [type |-> "dummy",
                fieldRow |-> << [image |-> TRUE, size |-> <<48, 48>>],
                                [image |-> FALSE, size |-> <<10, 10>>] >>],
               [type |-> "statement",
                fieldRow |-> << [image |-> TRUE, size |-> <<24, 24>>] >>] >>
       ELSE << [type |-> "dummy",
                fieldRow |-> << [image |-> FALSE, size |-> <<10, 10>>] >>] >>]

\* Offset of a bubble icon from its block's surface position.
IconOffset ==
  <<2, 2>>

\* Points[0] is where B starts; Points[1] lies exactly DRAG_RADIUS from it
\* at the scale of Scales.
Points ==
  {<<17 + 12 * (i \div 2), 1 + 4 * (i % 2) + 16 * (i \div 2)>> : i \in 0..MaxPoint}

\* workspace.scale as <<numerator, denominator>>.
Scales ==
  {<<5, 4>>}

\* The warning ids in use; "" is a call without opt_id.
WarnIds ==
  {"", "a"}

\* A warning text, or Null to delete.
WarnTexts ==
  {"w", Null}

\* What a queued change holds: <<block, id, text>>.
WarnCalls ==
  Blocks \X WarnIds \X WarnTexts

NoPid ==
  << >>

\* Snapping on a grid of spacing 2.
DefaultGrid ==
  [present |-> TRUE, snap |-> TRUE, spacing |-> 2]

\* The grid configurations: the option missing, snapping off, and snapping with spacing
\* 1, 2 and 5.
Grids ==
  {[present |-> FALSE, snap |-> FALSE, spacing |-> 0],
   [present |-> TRUE, snap |-> FALSE, spacing |-> 5]}
    \cup {[present |-> TRUE, snap |-> TRUE, spacing |-> n] : n \in {1, 2, 5}}

-----------------------------------------------------------------------------
(* The state as one record, and its write-back *)

S ==
  [ dragMode_ |-> dragMode_, selected |-> selected,
    highlightedConnection_ |-> highlightedConnection_,
    localConnection_ |-> localConnection_,
    onMouseUpWrapper_ |-> onMouseUpWrapper_,
    onMouseMoveWrapper_ |-> onMouseMoveWrapper_, listeners |-> listeners,
    parentBlock_ |-> parentBlock_, childBlocks_ |-> childBlocks_,
    parentNode |-> parentNode, translate |-> translate,
    svgGroup_ |-> svgGroup_, workspace |-> workspace, rendered |-> rendered,
    height |-> height, width |-> width, dragStartXY_ |-> dragStartXY_,
    draggedBubbles_ |-> draggedBubbles_, iconXY |-> iconXY, connXY |-> connXY,
    targetConnection |-> targetConnection, highlightDrawn |-> highlightDrawn,
    blocklySelected |-> blocklySelected, translate_ |-> translate_,
    skew_ |-> skew_,
    wiggleGroup |-> wiggleGroup, wigglePid |-> wigglePid,
    wiggleTimers |-> wiggleTimers, timers |-> timers,
    scale |-> scale, movable |-> movable, deletable |-> deletable,
    warning |-> warning, pid_ |-> pid_, timeouts |-> timeouts,
    gridOptions |-> gridOptions, fx |-> fx ]

Apply(t) ==
  /\ dragMode_' = t.dragMode_
  /\ selected' = t.selected
  /\ highlightedConnection_' = t.highlightedConnection_
  /\ localConnection_' = t.localConnection_
  /\ onMouseUpWrapper_' = t.onMouseUpWrapper_
  /\ onMouseMoveWrapper_' = t.onMouseMoveWrapper_
  /\ listeners' = t.listeners
  /\ parentBlock_' = t.parentBlock_
  /\ childBlocks_' = t.childBlocks_
  /\ parentNode' = t.parentNode
  /\ translate' = t.translate
  /\ svgGroup_' = t.svgGroup_
  /\ workspace' = t.workspace
  /\ rendered' = t.rendered
  /\ height' = t.height
  /\ width' = t.width
  /\ dragStartXY_' = t.dragStartXY_
  /\ draggedBubbles_' = t.draggedBubbles_
  /\ iconXY' = t.iconXY
  /\ connXY' = t.connXY
  /\ targetConnection' = t.targetConnection
  /\ highlightDrawn' = t.highlightDrawn
  /\ blocklySelected' = t.blocklySelected
  /\ translate_' = t.translate_
  /\ skew_' = t.skew_
  /\ wiggleGroup' = t.wiggleGroup
  /\ wigglePid' = t.wigglePid
  /\ wiggleTimers' = t.wiggleTimers
  /\ timers' = t.timers
  /\ scale' = t.scale
  /\ movable' = t.movable
  /\ deletable' = t.deletable
  /\ warning' = t.warning
  /\ pid_' = t.pid_
  /\ timeouts' = t.timeouts
  /\ gridOptions' = t.gridOptions
  /\ fx' = t.fx

\* The handler that ran last: its event (the position workspace.moveDrag(e)
\* gives, whether e has the rogue signature, the right button, whether
\* workspace.isDeleteArea(e) holds), the drag mode it started in, and its
\* effects outside the block model: connect calls, UI effects, renders,
\* resize events, tasks scheduled, the trial offsets given to closest(),
\* blocks disposed, whether it threw, its highlight() and unhighlight()
\* calls in order, and for setWarningText its arguments <<id, text>> and the
\* pending timeouts it cancelled, and the wiggles disconnectUiStop_ stopped.
NoFx(op, b, from) ==
  [ op |-> op, block |-> b, from |-> from, newXY |-> NoXY, rogue |-> FALSE,
    rightButton |-> FALSE, inDeleteArea |-> FALSE, connects |-> << >>,
    effects |-> << >>, renders |-> << >>, resizes |-> 0, scheduled |-> << >>,
    trial |-> {}, disposed |-> {}, threw |-> FALSE, lit |-> << >>,
    call |-> << >>, cleared |-> << >>, stopped |-> << >> ]

Log(s, field, v) ==
  [s EXCEPT !.fx[field] = Append(@, v)]

Plus(p, q) ==
  <<p[1] + q[1], p[2] + q[2]>>

Minus(p, q) ==
  <<p[1] - q[1], p[2] - q[2]>>

\* Square of goog.math.Coordinate.distance(p, q).
Dist2(p, q) ==
  (p[1] - q[1]) * (p[1] - q[1]) + (p[2] - q[2]) * (p[2] - q[2])

Max(a, b) ==
  IF a >= b THEN a ELSE b

\* Math.round(n / d) for d > 0: the nearest integer, halves rounded up.
Round(n, d) ==
  (2 * n + d) \div (2 * d)

-----------------------------------------------------------------------------
(* Position and hierarchy *)

RECURSIVE SurfaceWalk(_, _)
\* The do-while of getRelativeToSurfaceXY: add this element's translation,
\* go to its parent node, stop at a missing parent or at the canvas.
SurfaceWalk(s, e) ==
  IF s.parentNode[e] \in {Null, Canvas}
    THEN s.translate[e]
    ELSE Plus(s.translate[e], SurfaceWalk(s, s.parentNode[e]))

getRelativeToSurfaceXY(s, b) ==
  IF s.svgGroup_[b] THEN SurfaceWalk(s, b) ELSE <<0, 0>>

\* Blockly.Block.prototype.getConnections_: previous, then next.
getConnections_(s, b, all) ==
  IF all \/ s.rendered[b]
    THEN SelectSeq(<<previousConnection[b], nextConnection[b]>>,
                   LAMBDA c : c # Null)
    ELSE << >>

Range(q) ==
  {q[i] : i \in DOMAIN q}

RECURSIVE getDescendants(_, _)
getDescendants(s, b) ==
  {b} \cup UNION {getDescendants(s, c) : c \in s.childBlocks_[b]}

RECURSIVE RenderedSubtree(_, _)
\* The blocks moveConnections_ reaches: its recursion stops at a block that
\* is not rendered.
RenderedSubtree(s, b) ==
  IF ~s.rendered[b]
    THEN {}
    ELSE {b} \cup UNION {RenderedSubtree(s, c) : c \in s.childBlocks_[b]}

\* Icon.computeIconLocation: the icon sits at a fixed offset from its block.
computeIconLocation(s, b) ==
  Plus(getRelativeToSurfaceXY(s, b), IconOffset)

moveConnections_(s, b, dx, dy) ==
  LET moved == RenderedSubtree(s, b)
  IN  [s EXCEPT
         !.connXY = [c \in Conns |->
                       IF sourceBlock_[c] \in moved
                         THEN Plus(@[c], <<dx, dy>>) ELSE @[c]],
         !.iconXY = [d \in Blocks |->
                       IF d \in moved /\ @[d] # NoXY
                         THEN computeIconLocation(s, d) ELSE @[d]]]

isSuperior(c) ==
  connType[c] = "next"

\* Connection.disconnect: clears both ends; nothing to do when unconnected.
disconnect(s, a) ==
  IF s.targetConnection[a] = Null
    THEN s
    ELSE [s EXCEPT !.targetConnection =
            [c \in Conns |-> IF c \in {a, s.targetConnection[a]} THEN Null ELSE @[c]]]

\* Blockly.Block.prototype.setParent: both directions of the hierarchy link
\* and the connection to the old parent are severed together.
Block_setParent(s, b, newParent) ==
  LET old == s.parentBlock_[b]
      unlink(t) ==
        IF old = Null
          THEN t
          ELSE LET u == [t EXCEPT !.childBlocks_[old] = @ \ {b},
                                  !.parentBlock_[b] = Null]
               IN  IF previousConnection[b] # Null
                     THEN disconnect(u, previousConnection[b]) ELSE u
      link(t) ==
        IF newParent = Null
          THEN [t EXCEPT !.parentBlock_[b] = Null]
          ELSE [t EXCEPT !.parentBlock_[b] = newParent,
                         !.childBlocks_[newParent] = @ \cup {b}]
  IN  link(unlink(s))

\* setParent moving the root to the canvas with the transform it had.
setParent_KeepsTransform(s, b, newParent) ==
  LET toCanvas(t) ==
        IF t.parentBlock_[b] # Null /\ t.svgGroup_[b]
          THEN [t EXCEPT !.parentNode[b] = Canvas]
          ELSE t
      toParent(t) ==
        IF newParent = Null
          THEN t
          ELSE LET oldXY == getRelativeToSurfaceXY(t, b)
                   u == [t EXCEPT !.parentNode[b] = newParent]
                   newXY == getRelativeToSurfaceXY(u, b)
               IN  moveConnections_(u, b, newXY[1] - oldXY[1], newXY[2] - oldXY[2])
  IN  toParent(Block_setParent(toCanvas(s), b, newParent))

setParent(s, b, newParent) ==
  LET toCanvas(t) ==
        IF t.parentBlock_[b] # Null /\ t.svgGroup_[b]
          THEN [t EXCEPT !.parentNode[b] = Canvas,
                         !.translate[b] = getRelativeToSurfaceXY(t, b)]
          ELSE t
      toParent(t) ==
        IF newParent = Null
          THEN t
          ELSE LET oldXY == getRelativeToSurfaceXY(t, b)
                   u == [t EXCEPT !.parentNode[b] = newParent]
                   newXY == getRelativeToSurfaceXY(u, b)
               IN  moveConnections_(u, b, newXY[1] - oldXY[1], newXY[2] - oldXY[2])
  IN  toParent(Block_setParent(toCanvas(s), b, newParent))

-----------------------------------------------------------------------------
(* Rendering *)

\* The fields of all inputs, in input order then field order.
RECURSIVE Flatten(_)
Flatten(rows) ==
  IF rows = << >> THEN << >> ELSE Head(rows).fieldRow \o Flatten(Tail(rows))

\* The loop of renderCompute_ assigns metrics.icon at every image field it
\* meets, so the icon is the image field met last.
\* metrics.icon stays null without an image field; its size is then (0,0).
NoIcon ==
  [image |-> FALSE, size |-> <<0, 0>>]

findIconIn(inputs) ==
  LET images == SelectSeq(Flatten(inputs), LAMBDA f : f.image)
  IN  IF images = << >> THEN NoIcon ELSE images[Len(images)]

\* The metrics without the minimum height.
computeMetrics_IconHeight(inputs) ==
  LET icon == findIconIn(inputs)
      size == icon.size
  IN  [ hasStatement |-> \E i \in DOMAIN inputs : inputs[i].type = "statement",
        icon |-> icon,
        width |-> SEP_SPACE_X * 2 + size[1],
        height |-> SEP_SPACE_Y * 2 + size[2] ]

\* renderCompute_ on a block with the given input list.
computeMetrics(inputs) ==
  LET icon == findIconIn(inputs)
      size == icon.size
  IN  [ hasStatement |-> \E i \in DOMAIN inputs : inputs[i].type = "statement",
        icon |-> icon,
        width |-> SEP_SPACE_X * 2 + size[1],
        height |-> Max(SEP_SPACE_Y * 2 + size[2],
                       NOTCH_HEIGHT + 16 + CORNER_RADIUS * 2) ]

renderCompute_(b) ==
  computeMetrics(inputList[b])

\* Connection.tighten_: pull the target block so that the two connections
\* coincide.
tighten_(s, c) ==
  LET t == s.targetConnection[c]
      d == Minus(s.connXY[t], s.connXY[c])
      block == sourceBlock_[t]
  IN  IF d = <<0, 0>>
        THEN s
        ELSE moveConnections_(
               [s EXCEPT !.translate[block] = Minus(@, d)],
               block, -d[1], -d[2])

\* renderDraw_ with what renderDrawLeft_ and renderDrawRight_ do to the
\* block besides the path: the connections are
\* anchored at the block's surface position, height is stored (width is not).
renderDraw_(s, b, metrics) ==
  LET prev == previousConnection[b]
      next == nextConnection[b]
      bottom(t) == getRelativeToSurfaceXY(t, b)[2] + metrics.height - CORNER_RADIUS * 2
      anchorPrevious(t) ==
        [(IF prev # Null
            THEN [t EXCEPT !.connXY[prev] =
                    <<getRelativeToSurfaceXY(t, b)[1], bottom(t)>>]
            ELSE t)
           EXCEPT !.height[b] = metrics.height]
      moveTo(t) ==
        [t EXCEPT !.connXY[next] =
           <<getRelativeToSurfaceXY(t, b)[1] + metrics.width, bottom(t)>>]
      tighten(t) ==
        IF t.targetConnection[next] # Null THEN tighten_(t, next) ELSE t
      anchorNext(t) ==
        IF next # Null
          THEN [tighten(moveTo(t)) EXCEPT !.height[b] = @ + 4]
          ELSE t
      \* this.svgPath_.setAttribute('d', ..): svgPath_ is null once disposed.
      setPath(t) ==
        IF t.svgGroup_[b] THEN t ELSE [t EXCEPT !.fx.threw = TRUE]
  IN  setPath(anchorNext(anchorPrevious(s)))

RECURSIVE render_ResizeEachLevel(_, _, _)
\* render raising the resize notification at every level it passes.
render_ResizeEachLevel(s, b, opt_bubble) ==
  LET bubble(t) ==
        IF opt_bubble = FALSE \/ t.fx.threw
          THEN t
          ELSE IF t.parentBlock_[b] # Null
                 THEN [render_ResizeEachLevel(t, t.parentBlock_[b], TRUE)
                         EXCEPT !.fx.resizes = @ + 1]
                 ELSE [t EXCEPT !.fx.resizes = @ + 1]
  IN  bubble(renderDraw_(Log([s EXCEPT !.rendered[b] = TRUE], "renders", b),
                         b, renderCompute_(b)))

RECURSIVE render(_, _, _)
render(s, b, opt_bubble) ==
  LET bubble(t) ==
        IF opt_bubble = FALSE \/ t.fx.threw
          THEN t
          ELSE IF t.parentBlock_[b] # Null
                 THEN render(t, t.parentBlock_[b], TRUE)
                 ELSE [t EXCEPT !.fx.resizes = @ + 1]
  IN  bubble(renderDraw_(Log([s EXCEPT !.rendered[b] = TRUE], "renders", b),
                         b, renderCompute_(b)))

\* Connection.connect: complementary kinds, both ends live and unconnected;
\* otherwise rejected without effect.  The block of the inferior connection
\* becomes the child of the block of the superior one and, when both blocks
\* are rendered, is rendered (which reflows its new ancestors).
canConnect(s, a, c) ==
  /\ a # Null /\ c # Null
  /\ connType[a] # connType[c]
  /\ sourceBlock_[a] # sourceBlock_[c]
  /\ s.workspace[sourceBlock_[a]] /\ s.workspace[sourceBlock_[c]]
  /\ s.targetConnection[a] = Null /\ s.targetConnection[c] = Null

connect(s, a, c) ==
  LET superior == sourceBlock_[IF isSuperior(a) THEN a ELSE c]
      inferior == sourceBlock_[IF isSuperior(a) THEN c ELSE a]
      link(t) ==
        Log([t EXCEPT !.targetConnection[a] = c, !.targetConnection[c] = a],
            "connects", [local |-> a, target |-> c, done |-> TRUE])
      reflow(t) ==
        IF t.rendered[inferior] /\ t.rendered[superior]
          THEN render(t, inferior, TRUE)
          ELSE t
  IN  IF ~canConnect(s, a, c)
        THEN Log(s, "connects", [local |-> a, target |-> c, done |-> FALSE])
        ELSE reflow(setParent(link(s), inferior, superior))

-----------------------------------------------------------------------------
(* Selection and the disconnect animation *)

unselect(s, b) ==
  [s EXCEPT !.selected = Null, !.blocklySelected = @ \ {b}]

select(s, b) ==
  LET s1 == IF s.selected # Null THEN unselect(s, s.selected) ELSE s
  IN  [s1 EXCEPT !.selected = b, !.blocklySelected = @ \cup {b}]

\* group.setAttribute('transform', group.translate_ + skew): the position
\* part of the transform becomes the cached translate_ ('' puts it at 0,0).
setTransformFromCache(s, group) ==
  [s EXCEPT !.translate[group] =
     IF s.translate_[group] = NoXY THEN <<0, 0>> ELSE s.translate_[group]]

\* clearTimeout(Blockly.BlockSvg.disconnectUiStop_.pid): the timeout the pid
\* names is dropped if it is still pending.
clearWiggle(s) ==
  IF s.wigglePid # Null
    THEN [s EXCEPT !.wiggleTimers[s.wigglePid] = @ - 1, !.wigglePid = Null]
    ELSE s

\* The stop that resets the group and leaves its timeout pending.
disconnectUiStop_NoClear(s) ==
  IF s.wiggleGroup # Null
    THEN LET group == s.wiggleGroup
         IN  setTransformFromCache(
               [s EXCEPT !.skew_[group] = FALSE,
                         !.wiggleGroup = Null], group)
    ELSE s

disconnectUiStop_(s) ==
  IF s.wiggleGroup # Null
    THEN LET group == s.wiggleGroup
             stopped == Log(s, "stopped",
                            [group |-> group, pending |-> s.wigglePid = group])
         IN  setTransformFromCache(
               [clearWiggle(stopped) EXCEPT !.skew_[group] = FALSE,
                                            !.wiggleGroup = Null], group)
    ELSE s

\* One step of the wiggle; over is (percent > 1).
disconnectUiStep_(s, group, over) ==
  setTransformFromCache(
    IF over
      THEN [s EXCEPT !.skew_[group] = FALSE]
      ELSE [s EXCEPT !.skew_[group] = TRUE,
                     !.wiggleGroup = group,
                     !.wigglePid = group,
                     !.wiggleTimers[group] = @ + 1],
    group)

\* Lines 1058-1060: a pending step timeout of the group fires; the pid that
\* named it no longer names a pending timeout.
wiggleTimeout(s, group, over) ==
  disconnectUiStep_(
    [s EXCEPT !.wiggleTimers[group] = @ - 1,
              !.wigglePid = IF @ = group THEN Null ELSE @],
    group, over)

disconnectUiEffect(s, b) ==
  LET wiggle(t) ==
        IF t.scale[1] < t.scale[2] THEN t ELSE disconnectUiStep_(t, b, FALSE)
  IN  wiggle(Log(s, "effects", [kind |-> "disconnect", block |-> b]))

\* this.workspace.playAudio('click') fails on a disposed block; the ripple
\* is drawn at scale >= 1 only.
connectionUiEffect(s, b) ==
  IF ~s.workspace[b]
    THEN [s EXCEPT !.fx.threw = TRUE]
    ELSE Log(s, "effects", [kind |-> "connect", block |-> b])

disposeUiEffect(s, b) ==
  Log(s, "effects", [kind |-> "dispose", block |-> b])

-----------------------------------------------------------------------------
(* Deferred tasks (goog.Timer.callOnce) *)

Tasks ==
  {"snapToGrid", "bumpNeighbours_"} \X Blocks

callOnce(s, fn, delay, b) ==
  Log([s EXCEPT !.timers[<<fn, b>>] = @ + 1],
      "scheduled", [fn |-> fn, block |-> b, delay |-> delay])

WithinPending(s) ==
  /\ \A k \in Tasks : s.timers[k] <= pendingCap
  /\ \A p \in WarnCalls : s.timeouts[p] <= MaxTimeouts

-----------------------------------------------------------------------------
(* Moving and snapping *)

\* this.getSvgRoot().setAttribute(..) throws when the root is null.
moveBy(s, b, dx, dy) ==
  LET xy == getRelativeToSurfaceXY(s, b)
  IN  IF ~s.svgGroup_[b]
        THEN [s EXCEPT !.fx.threw = TRUE]
        ELSE moveConnections_([s EXCEPT !.translate[b] = <<xy[1] + dx, xy[2] + dy>>],
                              b, dx, dy)

\* The offset to the nearest grid line instead of the nearest cell centre.
snapOffset_ToLine(p, spacing) ==
  Round(p, spacing) * spacing - p

\* Math.round(Math.round((p - half) / spacing) * spacing + half - p) with
\* half = spacing / 2, in exact arithmetic.
snapOffset(p, spacing) ==
  Round(2 * Round(2 * p - spacing, 2 * spacing) * spacing + spacing - 2 * p, 2)

\* snapToGrid without the check for a drag in progress.
snapToGrid_DuringDrag(s, b) ==
  IF ~s.workspace[b] THEN s
  ELSE IF s.parentBlock_[b] # Null THEN s
  ELSE IF isInFlyout[b] THEN s
  ELSE IF ~s.gridOptions.present \/ ~s.gridOptions.snap THEN s
  ELSE LET spacing == s.gridOptions.spacing
           xy == getRelativeToSurfaceXY(s, b)
           dx == snapOffset(xy[1], spacing)
           dy == snapOffset(xy[2], spacing)
       IN  IF dx # 0 \/ dy # 0
             THEN moveBy([s EXCEPT !.fx.call = <<dx, dy>>], b, dx, dy)
             ELSE s

snapToGrid(s, b) ==
  IF ~s.workspace[b] THEN s
  ELSE IF s.dragMode_ # 0 THEN s
  ELSE IF s.parentBlock_[b] # Null THEN s
  ELSE IF isInFlyout[b] THEN s
  ELSE IF ~s.gridOptions.present \/ ~s.gridOptions.snap THEN s
  ELSE LET spacing == s.gridOptions.spacing
           xy == getRelativeToSurfaceXY(s, b)
           dx == snapOffset(xy[1], spacing)
           dy == snapOffset(xy[2], spacing)
       IN  IF dx # 0 \/ dy # 0
             THEN moveBy([s EXCEPT !.fx.call = <<dx, dy>>], b, dx, dy)
             ELSE s

\* Blockly.Block.prototype.bumpNeighbours_: the neighbour-separation pass.
\* Only its scheduling is observed here.
bumpNeighbours_(s, b) ==
  s

-----------------------------------------------------------------------------
(* Warning text *)

\* Blockly.Warning.prototype.getText: the texts of all ids, in id order.
getText(w) ==
  (IF w[""] # "" THEN <<w[""]>> ELSE << >>) \o (IF w["a"] # "" THEN <<w["a"]>> ELSE << >>)

\* clearTimeout(pid): the pending call the handle stands for, if it is
\* still pending, is gone.
clearTimeout(s, pid) ==
  IF pid # NoPid /\ s.timeouts[pid] > 0
    THEN Log([s EXCEPT !.timeouts[pid] = @ - 1], "cleared", pid)
    ELSE s

RECURSIVE clearAll(_, _)
\* for (var n in pid_) { clearTimeout(pid_[n]); delete pid_[n]; }
clearAll(s, ids) ==
  IF ids = {}
    THEN s
    ELSE LET n == CHOOSE n \in ids : TRUE
         IN  clearAll([clearTimeout(s, s.pid_[n]) EXCEPT !.pid_[n] = NoPid],
                      ids \ {n})

\* The kill that treats a call without id like a call with an id.
killPending_OwnIdOnly(s, id) ==
  IF s.pid_[id] # NoPid
    THEN [clearTimeout(s, s.pid_[id]) EXCEPT !.pid_[id] = NoPid]
    ELSE s

\* Lines 1176-1187: kill the pending processes this call supersedes.
killPending(s, id) ==
  IF id = ""
    THEN clearAll(s, WarnIds)
    ELSE IF s.pid_[id] # NoPid
           THEN [clearTimeout(s, s.pid_[id]) EXCEPT !.pid_[id] = NoPid]
           ELSE s

\* Lines 1188-1199: during a free drag the change is queued.
queueWarning(s, b, text, id) ==
  [s EXCEPT !.pid_[id] = <<b, id, text>>,
            !.timeouts[<<b, id, text>>] = @ + 1]

\* No Blockly.Warning object.
NoWarning ==
  [on |-> FALSE, text |-> [n \in WarnIds |-> ""]]

\* Lines 1200-1231: the change is made now.
commitWarning(s, b, text0, id) ==
  LET text == IF isInFlyout[b] THEN Null ELSE text0
      w == s.warning[b]
      cleared == [w.text EXCEPT ![id] = ""]
      set(t) ==
        IF text # Null
          THEN [t EXCEPT !.warning[b] = [on |-> TRUE,
                                         text |-> [w.text EXCEPT ![id] = text]]]
        ELSE IF w.on /\ id = ""
          THEN [t EXCEPT !.warning[b] = NoWarning]
        ELSE IF w.on
          THEN [t EXCEPT !.warning[b] = IF getText(cleared) = << >>
                                          THEN NoWarning
                                          ELSE [on |-> TRUE, text |-> cleared]]
        ELSE t
      changedState ==
        IF text # Null THEN ~w.on
        ELSE IF w.on /\ id = "" THEN TRUE
        ELSE IF w.on THEN getText(w.text) = getText(cleared)
        ELSE FALSE
      redraw(t) ==
        IF changedState /\ t.rendered[b]
          THEN bumpNeighbours_(render(t, b, TRUE), b)
          ELSE t
  IN  redraw(set(s))

setWarningText(s, b, text, id) ==
  LET change(t) ==
        IF t.dragMode_ = 2
          THEN queueWarning(t, b, text, id)
          ELSE commitWarning(t, b, text, id)
  IN  change(killPending(s, id))

\* The function setTimeout was given at line 1192.
warningTimeout(s, p) ==
  LET fired == [s EXCEPT !.timeouts[p] = @ - 1]
  IN  IF fired.workspace[p[1]]
        THEN setWarningText([fired EXCEPT !.pid_[p[2]] = NoPid], p[1], p[3], p[2])
        ELSE fired

-----------------------------------------------------------------------------
(* Drag termination *)

\* Blockly.unbindEvent_ removes the one binding the wrapper stands for.
unbind(s, type, wrapper) ==
  [s EXCEPT !.listeners[<<type, wrapper>>] = @ - 1]

\* Blockly.bindEvent_ adds a binding, also when the same handler is bound.
bind(s, type, b) ==
  [s EXCEPT !.listeners[<<type, b>>] = @ + 1]

\* terminateFree with the two delays exchanged.
terminateFree_BumpFirst(s, sel) ==
  LET xy == getRelativeToSurfaceXY(s, sel)
      dxy == Minus(xy, s.dragStartXY_[sel])
      s1 == moveConnections_(s, sel, dxy[1], dxy[2])
      s2 == [s1 EXCEPT !.draggedBubbles_[sel] = {}]
      s3 == render(s2, sel, TRUE)
      s4 == callOnce(s3, "snapToGrid", BUMP_DELAY, sel)
      s5 == callOnce(s4, "bumpNeighbours_", BUMP_DELAY \div 2, sel)
      s6 == [s5 EXCEPT !.fx.resizes = @ + 1]
  IN  Log(s6, "effects", [kind |-> "change", block |-> sel])

\* terminateFree leaving the connections where the drag started.
terminateFree_ConnectionsStay(s, sel) ==
  LET s2 == [s EXCEPT !.draggedBubbles_[sel] = {}]
      s3 == render(s2, sel, TRUE)
      s4 == callOnce(s3, "snapToGrid", BUMP_DELAY \div 2, sel)
      s5 == callOnce(s4, "bumpNeighbours_", BUMP_DELAY, sel)
      s6 == [s5 EXCEPT !.fx.resizes = @ + 1]
  IN  Log(s6, "effects", [kind |-> "change", block |-> sel])

\* The update of the released block under (dragMode_ == 2 && selected).
terminateFree(s, sel) ==
  LET xy == getRelativeToSurfaceXY(s, sel)
      dxy == Minus(xy, s.dragStartXY_[sel])
      s1 == moveConnections_(s, sel, dxy[1], dxy[2])
      s2 == [s1 EXCEPT !.draggedBubbles_[sel] = {}]
      s3 == render(s2, sel, TRUE)
      s4 == callOnce(s3, "snapToGrid", BUMP_DELAY \div 2, sel)
      s5 == callOnce(s4, "bumpNeighbours_", BUMP_DELAY, sel)
      s6 == [s5 EXCEPT !.fx.resizes = @ + 1]
  IN  Log(s6, "effects", [kind |-> "change", block |-> sel])

\* terminateDrag_ without the two unbindEvent_ calls.
terminateDrag_KeepsHandlers(s) ==
  LET forget(t) ==
        [t EXCEPT !.onMouseUpWrapper_ = Null, !.onMouseMoveWrapper_ = Null]
      update(t) ==
        IF t.dragMode_ = 2 /\ t.selected # Null
          THEN IF t.dragStartXY_[t.selected] = NoXY
                 THEN [t EXCEPT !.fx.threw = TRUE]
                 ELSE terminateFree(t, t.selected)
          ELSE t
      reset(t) ==
        IF t.fx.threw THEN t ELSE [t EXCEPT !.dragMode_ = 0]
  IN  reset(update(forget(disconnectUiStop_(s))))

terminateDrag_(s) ==
  LET unbindMouseUp(t) ==
        IF t.onMouseUpWrapper_ # Null
          THEN [unbind(t, "mouseup", t.onMouseUpWrapper_)
                  EXCEPT !.onMouseUpWrapper_ = Null]
          ELSE t
      unbindMouseMove(t) ==
        IF t.onMouseMoveWrapper_ # Null
          THEN [unbind(t, "mousemove", t.onMouseMoveWrapper_)
                  EXCEPT !.onMouseMoveWrapper_ = Null]
          ELSE t
      update(t) ==
        IF t.dragMode_ = 2 /\ t.selected # Null
          THEN IF t.dragStartXY_[t.selected] = NoXY
                 THEN [t EXCEPT !.fx.threw = TRUE]
                 ELSE terminateFree(t, t.selected)
          ELSE t
      reset(t) ==
        IF t.fx.threw THEN t ELSE [t EXCEPT !.dragMode_ = 0]
  IN  reset(update(unbindMouseMove(unbindMouseUp(disconnectUiStop_(s)))))

\* Blockly.terminateDrag_: ends the block drag (and the flyout's own drag).
Blockly_terminateDrag_(s) ==
  terminateDrag_(s)

-----------------------------------------------------------------------------
(* Proximity search *)

\* Iteration order of the connection registry.
ConnOrder ==
  <<"P.next", "B.prev", "B.next", "C.prev", "C.next">>

\* Candidates offered to conn: live, unconnected, of the complementary kind,
\* on a block outside the dragged block's own tree.
Candidates(s, conn) ==
  IF s.targetConnection[conn] # Null
    THEN {}
    ELSE {c \in Conns :
            /\ connType[c] # connType[conn]
            /\ s.workspace[sourceBlock_[c]]
            /\ s.targetConnection[c] = Null
            /\ sourceBlock_[c] \notin getDescendants(s, sourceBlock_[conn])}

\* Connection.closest(maxLimit, dx, dy).  Radii are carried as their squares
\* (maxLimit2, radius2), so distances are compared exactly: the closest
\* candidate strictly within the limit, the first in registry order on a tie.
closest(s, conn, maxLimit2, dx, dy) ==
  LET at == Plus(s.connXY[conn], <<dx, dy>>)
      d2(c) == Dist2(at, s.connXY[c])
      inRange == {i \in DOMAIN ConnOrder :
                    /\ ConnOrder[i] \in Candidates(s, conn)
                    /\ d2(ConnOrder[i]) < maxLimit2}
  IN  IF inRange = {}
        THEN [connection |-> Null, radius2 |-> maxLimit2]
        ELSE LET best == CHOOSE i \in inRange :
                           \A j \in inRange :
                             \/ d2(ConnOrder[i]) < d2(ConnOrder[j])
                             \/ d2(ConnOrder[i]) = d2(ConnOrder[j]) /\ i <= j
             IN  [connection |-> ConnOrder[best], radius2 |-> d2(ConnOrder[best])]

RECURSIVE scanConnections_FullRadius(_, _, _, _, _)
\* The loop asking every own connection for a neighbour within SNAP_RADIUS,
\* the radius never narrowed to the best found.
scanConnections_FullRadius(s, mine, acc, dx, dy) ==
  IF mine = << >>
    THEN acc
    ELSE LET neighbour == closest(s, Head(mine), SNAP_RADIUS * SNAP_RADIUS, dx, dy)
         IN  scanConnections_FullRadius(s, Tail(mine),
               IF neighbour.connection # Null
                 THEN [closest |-> neighbour.connection, local |-> Head(mine),
                       radius2 |-> neighbour.radius2]
                 ELSE acc,
               dx, dy)

RECURSIVE scanConnections(_, _, _, _, _)
\* The loop over myConnections in onMouseMove_; acc is
\* [closest, local, radius2].
scanConnections(s, mine, acc, dx, dy) ==
  IF mine = << >>
    THEN acc
    ELSE LET neighbour == closest(s, Head(mine), acc.radius2, dx, dy)
         IN  scanConnections(s, Tail(mine),
               IF neighbour.connection # Null
                 THEN [closest |-> neighbour.connection, local |-> Head(mine),
                       radius2 |-> neighbour.radius2]
                 ELSE acc,
               dx, dy)

highlight(s, c) ==
  Log([s EXCEPT !.highlightDrawn = @ \cup {c}],
      "lit", [kind |-> "highlight", connection |-> c])

unhighlight(s, c) ==
  Log([s EXCEPT !.highlightDrawn = @ \ {c}],
      "lit", [kind |-> "unhighlight", connection |-> c])

-----------------------------------------------------------------------------
(* Pointer handlers *)

\* The icons of the descendants with their locations, as onMouseDown_
\* collects them.
captureBubbles(s, b) ==
  {[bubble |-> d, x |-> s.iconXY[d][1], y |-> s.iconXY[d][2]] :
     d \in {e \in getDescendants(s, b) : s.iconXY[e] # NoXY}}

onMouseDown_(s, b, rightButton) ==
  LET press(t) ==
        IF rightButton
          THEN Log(t, "effects", [kind |-> "contextMenu", block |-> b])
        ELSE IF ~t.movable[b]
          THEN t
        ELSE [bind(bind(t, "mouseup", b), "mousemove", b) EXCEPT
                !.dragStartXY_[b] = getRelativeToSurfaceXY(t, b),
                !.dragMode_ = 1,
                !.onMouseUpWrapper_ = b,
                !.onMouseMoveWrapper_ = b,
                !.draggedBubbles_[b] = captureBubbles(t, b)]
      selectAndPress(t) ==
        IF t.fx.threw THEN t ELSE press(select(t, b))
  IN  IF isInFlyout[b]
        THEN s
        ELSE selectAndPress(Blockly_terminateDrag_(s))

\* The radius test with >= in place of >.
exceedsDragRadius_AtRadius(oldXY, newXY, sc) ==
  Dist2(oldXY, newXY) * sc[1] * sc[1] >= DRAG_RADIUS * DRAG_RADIUS * sc[2] * sc[2]

\* dr > Blockly.DRAG_RADIUS with dr = distance(oldXY, newXY) * scale, both
\* sides squared.
exceedsDragRadius(oldXY, newXY, sc) ==
  Dist2(oldXY, newXY) * sc[1] * sc[1] > DRAG_RADIUS * DRAG_RADIUS * sc[2] * sc[2]

\* Leaving the sticky radius without setParent(null).
startFreeDrag_Attached(s, b) ==
  [s EXCEPT !.dragMode_ = 2, !.translate_[b] = NoXY, !.skew_[b] = FALSE]

\* Lines 646-659: leave the sticky radius.
startFreeDrag(s, b) ==
  LET detach(t) ==
        IF t.parentBlock_[b] # Null
          THEN disconnectUiEffect(setParent(t, b, Null), b)
          ELSE t
  IN  detach([s EXCEPT !.dragMode_ = 2,
                       !.translate_[b] = NoXY,
                       !.skew_[b] = FALSE])

\* The offset of the block from where the drag started, as handed to the
\* bubbles and to closest().
dragOffset(s, b, oldXY) ==
  Minus(oldXY, s.dragStartXY_[b])

\* Unrestricted dragging with the new candidate highlighted before the
\* previous one is removed.
freeDrag_AddFirst(s, b, oldXY, newXY) ==
  LET d == dragOffset(s, b, oldXY)
      place(t) ==
        [t EXCEPT
           !.translate_[b] = newXY,
           !.translate[b] = newXY,
           !.iconXY = [e \in Blocks |->
              IF \E data \in t.draggedBubbles_[b] : data.bubble = e
                THEN LET data == CHOOSE data \in t.draggedBubbles_[b] :
                                   data.bubble = e
                     IN  <<data.x + d[1], data.y + d[2]>>
                ELSE @[e]],
           !.fx.trial = @ \cup {d}]
      scan(t) ==
        scanConnections(t, getConnections_(t, b, FALSE),
          [closest |-> Null, local |-> Null,
           radius2 |-> SNAP_RADIUS * SNAP_RADIUS],
          d[1], d[2])
      remove(t, closestConnection) ==
        IF t.highlightedConnection_ # Null
             /\ t.highlightedConnection_ # closestConnection
          THEN [unhighlight(t, t.highlightedConnection_)
                  EXCEPT !.highlightedConnection_ = Null,
                         !.localConnection_ = Null]
          ELSE t
      add(t, closestConnection, localConnection) ==
        IF closestConnection # Null /\ closestConnection # t.highlightedConnection_
          THEN [highlight(t, closestConnection)
                  EXCEPT !.highlightedConnection_ = closestConnection,
                         !.localConnection_ = localConnection]
          ELSE t
      update(t, found) ==
        remove(add(t, found.closest, found.local), found.closest)
      search(t) ==
        update(t, scan(t))
  IN  search(place(s))

\* Lines 661-709: unrestricted dragging.
freeDrag(s, b, oldXY, newXY) ==
  LET d == dragOffset(s, b, oldXY)
      place(t) ==
        [t EXCEPT
           !.translate_[b] = newXY,
           !.translate[b] = newXY,
           !.iconXY = [e \in Blocks |->
              IF \E data \in t.draggedBubbles_[b] : data.bubble = e
                THEN LET data == CHOOSE data \in t.draggedBubbles_[b] :
                                   data.bubble = e
                     IN  <<data.x + d[1], data.y + d[2]>>
                ELSE @[e]],
           !.fx.trial = @ \cup {d}]
      scan(t) ==
        scanConnections(t, getConnections_(t, b, FALSE),
          [closest |-> Null, local |-> Null,
           radius2 |-> SNAP_RADIUS * SNAP_RADIUS],
          d[1], d[2])
      remove(t, closestConnection) ==
        IF t.highlightedConnection_ # Null
             /\ t.highlightedConnection_ # closestConnection
          THEN [unhighlight(t, t.highlightedConnection_)
                  EXCEPT !.highlightedConnection_ = Null,
                         !.localConnection_ = Null]
          ELSE t
      add(t, closestConnection, localConnection) ==
        IF closestConnection # Null /\ closestConnection # t.highlightedConnection_
          THEN [highlight(t, closestConnection)
                  EXCEPT !.highlightedConnection_ = closestConnection,
                         !.localConnection_ = localConnection]
          ELSE t
      update(t, found) ==
        add(remove(t, found.closest), found.closest, found.local)
      search(t) ==
        update(t, scan(t))
  IN  search(place(s))

\* onMouseMove_ dragging the block in every drag mode but 0.
onMouseMove_DragsInSticky(s, b, newXY, rogue) ==
  LET oldXY == getRelativeToSurfaceXY(s, b)
      sticky(t) ==
        IF t.dragMode_ = 1 /\ exceedsDragRadius(oldXY, newXY, t.scale)
          THEN startFreeDrag(t, b)
          ELSE t
      free(t) ==
        IF t.dragMode_ # 0 THEN freeDrag(t, b, oldXY, newXY) ELSE t
  IN  IF rogue THEN s ELSE free(sticky(s))

onMouseMove_(s, b, newXY, rogue) ==
  LET oldXY == getRelativeToSurfaceXY(s, b)
      sticky(t) ==
        IF t.dragMode_ = 1 /\ exceedsDragRadius(oldXY, newXY, t.scale)
          THEN startFreeDrag(t, b)
          ELSE t
      free(t) ==
        IF t.dragMode_ = 2 THEN freeDrag(t, b, oldXY, newXY) ELSE t
  IN  IF rogue THEN s ELSE free(sticky(s))

-----------------------------------------------------------------------------
(* Disposal *)

\* Blockly.Block.prototype.unplug: detach from the parent; with healStack the
\* next block is detached too and reconnected to the former parent.
unplug(s, b, healStack) ==
  LET prev == previousConnection[b]
      next == nextConnection[b]
      previousTarget == IF prev # Null THEN s.targetConnection[prev] ELSE Null
      detach(t) ==
        IF previousTarget # Null THEN setParent(t, b, Null) ELSE t
      reconnect(t, nextTarget) ==
        IF previousTarget # Null
          THEN connect(t, previousTarget, nextTarget)
          ELSE t
      healWith(t, nextTarget) ==
        IF healStack /\ nextTarget # Null
          THEN reconnect(setParent(t, sourceBlock_[nextTarget], Null), nextTarget)
          ELSE t
      heal(t) ==
        healWith(t, IF next # Null THEN t.targetConnection[next] ELSE Null)
  IN  heal(detach(s))

RECURSIVE dispose(_, _, _, _)
RECURSIVE disposeChildren(_, _)

\* for (x ...) this.childBlocks_[x].dispose(false)
disposeChildren(s, b) ==
  IF s.childBlocks_[b] = {}
    THEN s
    ELSE LET c == CHOOSE c \in s.childBlocks_[b] : TRUE
         IN  disposeChildren(dispose(s, c, FALSE, FALSE), b)

\* Blockly.Block.prototype.dispose: sever the hierarchy links, drop the
\* workspace and the selection, dispose the children and the connections
\* (a disposed connection is forgotten as highlighted or local connection).
Block_dispose(s, b, healStack) ==
  LET mine == {c \in Conns : sourceBlock_[c] = b}
      leave(t) ==
        [t EXCEPT !.workspace[b] = FALSE,
                  !.selected = IF @ = b THEN Null ELSE @,
                  !.fx.disposed = @ \cup {b}]
      disposeConnections(t) ==
        [t EXCEPT
           !.targetConnection =
              [c \in Conns |-> IF c \in mine \/ @[c] \in mine THEN Null ELSE @[c]],
           !.highlightDrawn = @ \ mine,
           !.highlightedConnection_ = IF @ \in mine THEN Null ELSE @,
           !.localConnection_ = IF @ \in mine THEN Null ELSE @]
  IN  disposeConnections(disposeChildren(leave(unplug(s, b, healStack)), b))

\* dispose that leaves this.rendered as it is.
dispose_KeepsRendered(s, b, healStack, animate) ==
  LET stopDrag(t) ==
        IF t.selected = b THEN Blockly_terminateDrag_(t) ELSE t
      animateOut(t) ==
        IF animate /\ t.rendered[b]
          THEN disposeUiEffect(unplug(t, b, healStack), b)
          ELSE t
      stopRendering(t) ==
        [t EXCEPT !.iconXY[b] = NoXY]
      removeNode(t) ==
        [t EXCEPT !.parentNode[b] = Null, !.svgGroup_[b] = FALSE]
      tearDown(t) ==
        IF t.fx.threw
          THEN t
          ELSE removeNode(Block_dispose(stopRendering(animateOut(t)), b, healStack))
  IN  tearDown(stopDrag(s))

dispose(s, b, healStack, animate) ==
  LET stopDrag(t) ==
        IF t.selected = b THEN Blockly_terminateDrag_(t) ELSE t
      animateOut(t) ==
        IF animate /\ t.rendered[b]
          THEN disposeUiEffect(unplug(t, b, healStack), b)
          ELSE t
      stopRendering(t) ==
        [t EXCEPT !.rendered[b] = FALSE, !.iconXY[b] = NoXY]
      removeNode(t) ==
        [t EXCEPT !.parentNode[b] = Null, !.svgGroup_[b] = FALSE]
      tearDown(t) ==
        IF t.fx.threw
          THEN t
          ELSE removeNode(Block_dispose(stopRendering(animateOut(t)), b, healStack))
  IN  tearDown(stopDrag(s))

-----------------------------------------------------------------------------
(* Pointer release *)

\* The commit with the effect always played on the local connection's block.
commitConnection_LocalPlays(s, b) ==
  LET effect(t) ==
        IF t.rendered[b]
          THEN connectionUiEffect(t, sourceBlock_[s.localConnection_])
          ELSE t
  IN  IF s.localConnection_ = Null
        THEN [s EXCEPT !.fx.threw = TRUE]
        ELSE effect(connect(s, s.localConnection_, s.highlightedConnection_))

\* Lines 446-463: commit the highlighted connection.
commitConnection(s, b) ==
  LET inferiorConnection == IF isSuperior(s.localConnection_)
                              THEN s.highlightedConnection_
                              ELSE s.localConnection_
      effect(t) ==
        IF t.rendered[b]
          THEN connectionUiEffect(t, sourceBlock_[inferiorConnection])
          ELSE t
  IN  IF s.localConnection_ = Null
        THEN [s EXCEPT !.fx.threw = TRUE]
        ELSE effect(connect(s, s.localConnection_, s.highlightedConnection_))

\* The delete condition without the test for a parent.
shouldDelete_AnyLevel(s, b, inDeleteArea) ==
  /\ s.deletable[s.selected]
  /\ inDeleteArea

\* Lines 464-475: the condition of the delete branch.
shouldDelete(s, b, inDeleteArea) ==
  /\ s.parentBlock_[b] = Null
  /\ s.deletable[s.selected]
  /\ inDeleteArea

\* onMouseUp_ without its closing unhighlight.
onMouseUp_KeepsHighlight(s, b, inDeleteArea) ==
  LET release(t) ==
        IF t.fx.threw
          THEN t
        ELSE IF t.selected # Null /\ t.highlightedConnection_ # Null
          THEN commitConnection(t, b)
        ELSE IF t.parentBlock_[b] = Null /\ t.selected = Null
          THEN [t EXCEPT !.fx.threw = TRUE]
        ELSE IF shouldDelete(t, b, inDeleteArea)
          THEN [dispose(t, t.selected, FALSE, TRUE) EXCEPT !.fx.resizes = @ + 1]
        ELSE t
  IN  release(Blockly_terminateDrag_(s))

onMouseUp_(s, b, inDeleteArea) ==
  LET release(t) ==
        IF t.fx.threw
          THEN t
        ELSE IF t.selected # Null /\ t.highlightedConnection_ # Null
          THEN commitConnection(t, b)
        ELSE IF t.parentBlock_[b] = Null /\ t.selected = Null
          THEN [t EXCEPT !.fx.threw = TRUE]
        ELSE IF shouldDelete(t, b, inDeleteArea)
          THEN [dispose(t, t.selected, FALSE, TRUE) EXCEPT !.fx.resizes = @ + 1]
        ELSE t
      clear(t) ==
        IF ~t.fx.threw /\ t.highlightedConnection_ # Null
          THEN [unhighlight(t, t.highlightedConnection_)
                  EXCEPT !.highlightedConnection_ = Null]
          ELSE t
  IN  clear(release(Blockly_terminateDrag_(s)))

-----------------------------------------------------------------------------
(* Initial state and actions *)

-----------------------------------------------------------------------------
(* The outline and the footprint of blocks given by definition *)

Label ==
  [image |-> FALSE, size |-> <<10, 10>>]

Image(w, h) ==
  [image |-> TRUE, size |-> <<w, h>>]

Row(type, fields) ==
  [type |-> type, fieldRow |-> fields]

\* Input lists without image, with one image, with two images in one row or
\* in two, with and without a statement input.
InputLists ==
  { <<Row("dummy", <<Label>>)>>,
    <<Row("dummy", <<Image(24, 24)>>)>>,
    <<Row("dummy", <<Image(48, 48), Label>>), Row("statement", <<Image(24, 24)>>)>>,
    <<Row("dummy", <<Image(24, 24), Image(64, 56)>>)>>,
    <<Row("dummy", <<Label>>), Row("statement", << >>)>> }

\* A block has a previous or an output connection, not both.
BlockDefs ==
  {d \in [previous : BOOLEAN, next : BOOLEAN, output : BOOLEAN,
          inputList : InputLists] : ~(d.previous /\ d.output)}

\* Stacks of up to MaxChain blocks, each chained to the next connection of
\* the one above.
Designs ==
  UNION {{q \in [1..n -> BlockDefs] :
            \A i \in 1..(n - 1) : q[i].next /\ q[i + 1].previous} :
         n \in 1..MaxChain}

\* Path commands: m, l, a, h, v move the pen by (x, y); A, H, V take it to
\* the absolute x and/or y; z closes the contour.
Cmd(c, x, y) ==
  <<[c |-> c, x |-> x, y |-> y]>>

TOP_LEFT_CORNER_START ==
  Cmd("m", CORNER_RADIUS, 0)

TOP_LEFT_CORNER ==
  Cmd("A", 0, CORNER_RADIUS)

HAT_TOP_LEFT_CORNER_START ==
  Cmd("m", HAT_CORNER_RADIUS, 0)

HAT_TOP_LEFT_CORNER ==
  Cmd("A", 0, HAT_CORNER_RADIUS)

NOTCH_PATH_DOWN ==
  Cmd("l", 8, 8) \o Cmd("l", 0, 16) \o Cmd("l", -8, 8)

NOTCH_PATH_UP ==
  Cmd("l", 8, -8) \o Cmd("l", 0, -16) \o Cmd("l", -8, -8)

renderDrawLeft_(def, metrics) ==
  IF def.previous
    THEN TOP_LEFT_CORNER_START \o TOP_LEFT_CORNER
           \o Cmd("V", 0, metrics.height - CORNER_RADIUS - 8 - NOTCH_HEIGHT)
           \o NOTCH_PATH_DOWN
           \o Cmd("V", 0, metrics.height - CORNER_RADIUS)
    ELSE HAT_TOP_LEFT_CORNER_START \o HAT_TOP_LEFT_CORNER
           \o Cmd("V", 0, metrics.height - HAT_CORNER_RADIUS)

renderDrawBottom_(def, metrics) ==
  LET \* the recess of a statement input, lines 1628-1652
      recess ==
        Cmd("h", 8, 0) \o Cmd("a", CORNER_RADIUS, -CORNER_RADIUS)
          \o Cmd("v", 0, -8) \o NOTCH_PATH_UP
          \o Cmd("v", 0, -50 + CORNER_RADIUS * 2 + NOTCH_HEIGHT + 8)
          \o Cmd("a", CORNER_RADIUS, -CORNER_RADIUS)
          \o Cmd("h", 20 - CORNER_RADIUS * 2, 0)
          \o Cmd("a", CORNER_RADIUS, CORNER_RADIUS)
          \o Cmd("v", 0, 50 - CORNER_RADIUS * 2 - NOTCH_HEIGHT - 8)
          \o NOTCH_PATH_DOWN \o Cmd("v", 0, 8)
          \o Cmd("a", CORNER_RADIUS, CORNER_RADIUS)
  IN
  (IF def.previous
     THEN Cmd("a", CORNER_RADIUS, CORNER_RADIUS)
     ELSE Cmd("a", HAT_CORNER_RADIUS, HAT_CORNER_RADIUS))
    \o (IF metrics.hasStatement THEN recess ELSE << >>)
    \o (IF def.next
          THEN Cmd("H", metrics.width - CORNER_RADIUS, 0)
          ELSE Cmd("H", metrics.width - HAT_CORNER_RADIUS, 0))

renderDrawRight_(def, metrics) ==
  (IF def.next
     THEN Cmd("a", CORNER_RADIUS, -CORNER_RADIUS)
     ELSE Cmd("a", HAT_CORNER_RADIUS, -HAT_CORNER_RADIUS))
    \o Cmd("v", 0, -8)
    \o (IF def.next
          THEN NOTCH_PATH_UP \o Cmd("V", 0, CORNER_RADIUS)
          ELSE Cmd("V", 0, HAT_CORNER_RADIUS))

\* The top edge that ends on the bottom-right corner's radius.
renderDrawTop_SameCorner(def, metrics) ==
  Cmd("a", -CORNER_RADIUS, -CORNER_RADIUS) \o Cmd("z", 0, 0)

renderDrawTop_(def, metrics) ==
  (IF def.next
     THEN Cmd("a", -CORNER_RADIUS, -CORNER_RADIUS)
     ELSE Cmd("a", -HAT_CORNER_RADIUS, -HAT_CORNER_RADIUS))
    \o Cmd("z", 0, 0)

\* renderDraw_ on block i of the stack: the path in steps, the height
\* stored, the image field taken as the icon and where it is placed.
drawBlock(dr, def, i) ==
  LET metrics == computeMetrics(def.inputList)
  IN  [dr EXCEPT
         !.rendered[i] = TRUE,
         !.steps[i] = renderDrawLeft_(def, metrics)
                        \o renderDrawBottom_(def, metrics)
                        \o renderDrawRight_(def, metrics)
                        \o renderDrawTop_(def, metrics),
         \* this.height after renderDrawLeft_ (1599) and renderDrawRight_ (1742)
         !.height[i] = metrics.height + (IF def.next THEN 4 ELSE 0),
         !.icon[i] = metrics.icon,
         \* lines 1558-1564: where the icon is put, if there is one
         !.iconAt[i] =
           IF metrics.icon.image
             THEN <<metrics.width - metrics.icon.size[1] - SEP_SPACE_X \div 2,
                    SEP_SPACE_Y>>
             ELSE NoXY]

RECURSIVE getHeightWidth_MarginIfNoPrevious(_, _, _)
\* The footprint with the margin given to blocks without previous and
\* without next connection.
getHeightWidth_MarginIfNoPrevious(stack, dr, i) ==
  LET ownHeight == dr.height[i]
      ownWidth == dr.width[i]
  IN  IF i < Len(stack)
        THEN LET nextHeightWidth == getHeightWidth_MarginIfNoPrevious(stack, dr, i + 1)
             IN  [height |-> ownHeight + nextHeightWidth.height - 4,
                  width |-> Max(ownWidth, nextHeightWidth.width)]
        ELSE IF ~stack[i].next /\ ~stack[i].previous
          THEN [height |-> ownHeight + 2, width |-> ownWidth]
          ELSE [height |-> ownHeight, width |-> ownWidth]

RECURSIVE getHeightWidth_NoTab(_, _, _)
\* The footprint that adds the heights without taking off the tab.
getHeightWidth_NoTab(stack, dr, i) ==
  LET ownHeight == dr.height[i]
      ownWidth == dr.width[i]
  IN  IF i < Len(stack)
        THEN LET nextHeightWidth == getHeightWidth_NoTab(stack, dr, i + 1)
             IN  [height |-> ownHeight + nextHeightWidth.height,
                  width |-> Max(ownWidth, nextHeightWidth.width)]
        ELSE IF ~stack[i].next /\ ~stack[i].output
          THEN [height |-> ownHeight + 2, width |-> ownWidth]
          ELSE [height |-> ownHeight, width |-> ownWidth]

RECURSIVE getHeightWidth(_, _, _)
\* getHeightWidth of block i of the stack; its next block is block i + 1.
getHeightWidth(stack, dr, i) ==
  LET ownHeight == dr.height[i]
      ownWidth == dr.width[i]
  IN  IF i < Len(stack)
        THEN LET nextHeightWidth == getHeightWidth(stack, dr, i + 1)
             IN  [height |-> ownHeight + nextHeightWidth.height - 4,
                  width |-> Max(ownWidth, nextHeightWidth.width)]
        ELSE IF ~stack[i].next /\ ~stack[i].output
          THEN [height |-> ownHeight + 2, width |-> ownWidth]
          ELSE [height |-> ownHeight, width |-> ownWidth]

\* fresh: the blocks constructed and attached but never rendered; their
\* connections still lie at the origin and no height is stored.
InitAt(movableBlocks, cXY, cap, fresh, grids, designs) ==
  /\ dragMode_ = 0
  /\ selected = Null
  /\ highlightedConnection_ = Null
  /\ localConnection_ = Null
  /\ onMouseUpWrapper_ = Null
  /\ onMouseMoveWrapper_ = Null
  /\ listeners = [l \in {"mouseup", "mousemove"} \X Blocks |-> 0]
  /\ parentBlock_ = [b \in Blocks |-> IF b = "B" THEN "P" ELSE Null]
  /\ childBlocks_ = [b \in Blocks |-> IF b = "P" THEN {"B"} ELSE {}]
  /\ parentNode = [b \in Blocks |-> IF b = "B" THEN "P" ELSE Canvas]
  /\ translate = [b \in Blocks |->
                    CASE b = "P" -> <<1, 1>> [] b = "B" -> <<16, 0>>
                      [] b = "C" -> cXY [] OTHER -> <<0, 0>>]
  /\ svgGroup_ = [b \in Blocks |-> TRUE]
  /\ workspace = [b \in Blocks |-> TRUE]
  /\ rendered = [b \in Blocks |-> b \notin fresh]
  /\ height = [b \in Blocks |->
                 IF b \in fresh THEN 0 ELSE IF b = "F" THEN 56 ELSE 60]
  /\ width = [b \in Blocks |-> 0]
  /\ dragStartXY_ = [b \in Blocks |-> NoXY]
  /\ draggedBubbles_ = [b \in Blocks |-> {}]
  \* B and C own a bubble icon (comment/warning/mutator)
  /\ iconXY = [b \in Blocks |->
                 IF b \in {"B", "C"} \ fresh
                   THEN Plus(IF b = "B" THEN <<17, 1>> ELSE cXY, IconOffset)
                   ELSE NoXY]
  /\ connXY = [c \in Conns |->
                 CASE sourceBlock_[c] \in fresh -> <<0, 0>>
                   [] c = "P.next" -> <<17, 49>> [] c = "B.prev" -> <<17, 49>>
                   [] c = "B.next" -> <<33, 49>>
                   [] c = "C.prev" -> Plus(cXY, <<0, 48>>)
                   [] OTHER -> Plus(cXY, <<40, 48>>)]
  /\ targetConnection = [c \in Conns |->
                 CASE c = "P.next" -> "B.prev" [] c = "B.prev" -> "P.next"
                   [] OTHER -> Null]
  /\ highlightDrawn = {}
  /\ blocklySelected = {}
  /\ translate_ = [b \in Blocks |-> NoXY]
  /\ skew_ = [b \in Blocks |-> FALSE]
  /\ wiggleGroup = Null
  /\ wigglePid = Null
  /\ wiggleTimers = [b \in Blocks |-> 0]
  /\ timers = [k \in Tasks |-> 0]
  /\ scale \in Scales
  /\ movable = [b \in Blocks |-> b \in movableBlocks]
  /\ deletable = [b \in Blocks |-> b \in {"B", "C"}]
  /\ warning = [b \in Blocks |-> NoWarning]
  /\ pid_ = [id \in WarnIds |-> NoPid]
  /\ timeouts = [p \in WarnCalls |-> 0]
  /\ gridOptions \in grids
  /\ design \in designs
  \* nothing rendered or measured: height and width are the prototype's 0
  /\ drawing =
       [ rendered |-> [i \in DOMAIN design |-> FALSE],
         steps |-> [i \in DOMAIN design |-> << >>],
         height |-> [i \in DOMAIN design |-> 0],
         width |-> [i \in DOMAIN design |-> 0],
         icon |-> [i \in DOMAIN design |-> NoIcon],
         iconAt |-> [i \in DOMAIN design |-> NoXY],
         measured |-> 0,
         footprint |-> [height |-> 0, width |-> 0] ]
  /\ fx = NoFx("init", Null, 0)
  /\ pendingCap = cap

\* C lies to the lower right of the stack P-B.  Only B and the flyout block
\* can be dragged; P and C are fixed.
Init ==
  InitAt({"B", "F"}, <<45, 17>>, MaxPending, {}, {DefaultGrid}, {<< >>})

Begin(op, b) ==
  [S EXCEPT !.fx = NoFx(op, b, dragMode_)]

Do(t) ==
  WithinPending(t) /\ Apply(t) /\ UNCHANGED <<pendingCap, design, drawing>>

\* mousedown on the SVG root of block b.  A flyout block's handler returns
\* at once.
MouseDown(b, rightButton) ==
  /\ svgGroup_[b]
  /\ ~isInFlyout[b]
  /\ Do(onMouseDown_([Begin("mouseDown", b) EXCEPT !.fx.rightButton = rightButton],
                     b, rightButton))

\* mousemove on the document, delivered to the handler bound for block b.
MouseMove(b, newXY, rogue) ==
  /\ listeners[<<"mousemove", b>>] > 0
  /\ Do(onMouseMove_([Begin("mouseMove", b) EXCEPT !.fx.newXY = newXY,
                                                     !.fx.rogue = rogue],
                     b, newXY, rogue))

\* mouseup on the document, delivered to the handler bound for block b.
MouseUp(b, inDeleteArea) ==
  /\ listeners[<<"mouseup", b>>] > 0
  /\ Do(onMouseUp_([Begin("mouseUp", b) EXCEPT !.fx.inDeleteArea = inDeleteArea],
                   b, inDeleteArea))

\* dispose(healStack, animate) called from outside on the selected block
\* (the context menu's delete option, the workspace's delete key, the API).
Dispose(b, healStack, animate) ==
  /\ selected = b
  /\ workspace[b]
  /\ Do(dispose(Begin("dispose", b), b, healStack, animate))

\* A pending deferred task fires.  The two tasks of one drag termination are
\* scheduled together with delays BUMP_DELAY / 2 and BUMP_DELAY, so a block's
\* bump fires only when it is older than every pending snap of that block.
FireTimer(k) ==
  /\ timers[k] > 0
  /\ k[1] = "bumpNeighbours_" => timers[k] > timers[<<"snapToGrid", k[2]>>]
  /\ LET run(t) ==
           IF k[1] = "snapToGrid" THEN snapToGrid(t, k[2]) ELSE bumpNeighbours_(t, k[2])
     IN  Do(run([Begin(k[1], k[2]) EXCEPT !.timers[k] = @ - 1]))

\* render(false) called from outside on a live block.
RenderOnly(b) ==
  /\ svgGroup_[b]
  /\ ~isInFlyout[b]
  /\ (dragMode_ # 0 /\ selected # Null) => b \notin getDescendants(S, selected)
  /\ Do(render(Begin("renderOnly", b), b, FALSE))

\* A position or geometry operation invoked on block b, with offsets d where
\* it takes them.
GeometryFns ==
  {"getRelativeToSurfaceXY", "moveBy", "moveConnections_", "snapToGrid", "render"}

\* One of them invoked on a disposed block.
StaleCall(b, fn) ==
  /\ ~svgGroup_[b]
  /\ ~workspace[b]
  /\ ~rendered[b]
  /\ LET run(t) ==
           CASE fn = "moveBy" -> moveBy(t, b, 2, 2)
             [] fn = "moveConnections_" -> moveConnections_(t, b, 2, 2)
             [] fn = "snapToGrid" -> snapToGrid(t, b)
             [] fn = "render" -> render(t, b, TRUE)
             [] OTHER -> t
     IN  Do(run(Begin(fn, b)))

\* Where the blocks lie at the start.
Home ==
  [b \in Blocks |->
     CASE b = "P" -> <<1, 1>> [] b = "B" -> <<17, 1>>
       [] b = "C" -> <<45, 17>> [] OTHER -> <<0, 0>>]

\* moveBy is followed while the block stays near its place at the start.
InField(b, p) ==
  /\ p[1] - Home[b][1] \in -2..2
  /\ p[2] - Home[b][2] \in -4..4

\* moveBy(dx, dy) called from outside on a live block.
MoveBy(b, d) ==
  /\ svgGroup_[b]
  /\ workspace[b]
  /\ InField(b, Plus(getRelativeToSurfaceXY(S, b), d))
  /\ Do(moveBy([Begin("moveBy", b) EXCEPT !.fx.call = d], b, d[1], d[2]))

\* render() on block i of the stack under design.
RenderDesign(i) ==
  /\ i \in DOMAIN design
  /\ ~drawing.rendered[i]
  /\ drawing' = [drawBlock(drawing, design[i], i) EXCEPT !.measured = 0]
  /\ UNCHANGED <<core, design, fx, pendingCap>>

\* getHeightWidth() on block i of the stack under design.
MeasureDesign(i) ==
  /\ i \in DOMAIN design
  /\ drawing' = [drawing EXCEPT !.measured = i,
                                !.footprint = getHeightWidth(design, drawing, i)]
  /\ UNCHANGED <<core, design, fx, pendingCap>>

\* snapToGrid() called from outside, on a block near its place at the start.
SnapToGrid(b) ==
  /\ InField(b, getRelativeToSurfaceXY(S, b))
  /\ Do(snapToGrid(Begin("callSnapToGrid", b), b))

\* setWarningText(text, opt_id) called from outside on a live block.
SetWarningText(b, text, id) ==
  /\ workspace[b]
  /\ Do(setWarningText([Begin("setWarningText", b) EXCEPT !.fx.call = <<id, text>>],
                        b, text, id))

\* A pending timeout of setWarningText fires.
WarningTimeout(p) ==
  /\ timeouts[p] > 0
  /\ Do(warningTimeout([Begin("warningTimeout", p[1])
                           EXCEPT !.fx.call = <<p[2], p[3]>>], p))

\* setParent(null) called from outside on an attached block, no drag on.
SetParent(b) ==
  /\ parentBlock_[b] # Null
  /\ svgGroup_[b]
  /\ dragMode_ = 0
  /\ Do(setParent(Begin("setParent", b), b, Null))

\* select() called from outside on a live block.
Select(b) ==
  /\ workspace[b]
  /\ svgGroup_[b]
  /\ Do(select(Begin("select", b), b))

\* unselect() called from outside on a live block.
Unselect(b) ==
  /\ workspace[b]
  /\ svgGroup_[b]
  /\ Do(unselect(Begin("unselect", b), b))

\* A pending timeout of the disconnect wiggle fires.
WiggleStep(group, over) ==
  /\ wiggleTimers[group] > 0
  /\ Do(wiggleTimeout(Begin("wiggle", group), group, over))

\* render() called from outside (a field or shape edit) on a live block that
\* is not part of the tree being dragged.
Render(b) ==
  /\ svgGroup_[b]
  /\ ~isInFlyout[b]
  /\ (dragMode_ # 0 /\ selected # Null) => b \notin getDescendants(S, selected)
  /\ Do(render(Begin("render", b), b, TRUE))

Next ==
  \/ \E b \in Blocks, rightButton \in BOOLEAN : MouseDown(b, rightButton)
  \/ \E b \in Blocks, newXY \in Points : MouseMove(b, newXY, FALSE)
  \* an event with the rogue signature (clientX <= 1, clientY = 0)
  \/ \E b \in Blocks : MouseMove(b, <<5, -15>>, TRUE)
  \/ \E b \in Blocks, inDeleteArea \in BOOLEAN : MouseUp(b, inDeleteArea)
  \/ \E b \in Blocks, healStack \in BOOLEAN, animate \in BOOLEAN :
       Dispose(b, healStack, animate)
  \/ \E k \in Tasks : FireTimer(k)
  \/ \E group \in Blocks, over \in BOOLEAN : WiggleStep(group, over)
  \/ \E b \in Blocks : Render(b)

Spec ==
  Init /\ [][Next]_vars

\* The pointer events away from the delete area, on a workspace with two
\* movable blocks.
NextTwo ==
  \/ \E b \in Blocks, rightButton \in BOOLEAN : MouseDown(b, rightButton)
  \/ \E b \in Blocks, newXY \in Points : MouseMove(b, newXY, FALSE)
  \/ \E b \in Blocks : MouseUp(b, FALSE)

\* B and C can both be dragged.
SpecTwo ==
  InitAt({"B", "C", "F"}, <<45, 17>>, MaxPending, {}, {DefaultGrid}, {<< >>})
    /\ [][NextTwo]_vars

\* C lies where, for B displaced by <<0, 4>>, C.prev is as far from B.next as
\* P.next is from B.prev.
SpecTie ==
  InitAt({"B", "F"}, <<37, 5>>, MaxPending, {}, {DefaultGrid}, {<< >>})
    /\ [][NextTwo]_vars

\* Drags of B released away from the delete area, and the tasks the
\* releases defer.
NextDrag ==
  \/ \E b \in Blocks : MouseDown(b, FALSE)
  \/ \E b \in Blocks, newXY \in Points : MouseMove(b, newXY, FALSE)
  \/ \E b \in Blocks : MouseUp(b, FALSE)
  \/ \E k \in Tasks : FireTimer(k)

\* Drags, the tasks they defer, and attached blocks detached by
\* setParent(null).
NextDetach ==
  \/ \E b \in Blocks : MouseDown(b, FALSE)
  \/ \E b \in Blocks, newXY \in Points : MouseMove(b, newXY, FALSE)
  \/ \E b \in Blocks : MouseUp(b, FALSE)
  \/ \E k \in Tasks : FireTimer(k)
  \/ \E b \in Blocks : SetParent(b)

SpecDetach ==
  Init /\ [][NextDetach]_vars

SpecDrag ==
  Init /\ [][NextDrag]_vars

\* The drags of SpecDrag on a grid of spacing 5, whose points B's places
\* are not.
SpecRest ==
  InitAt({"B", "F"}, <<45, 17>>, MaxPending, {},
         {[present |-> TRUE, snap |-> TRUE, spacing |-> 5]}, {<< >>})
    /\ [][NextDrag]_vars

\* Drags of B to a far point and back to rest, its disposal, warning-text
\* changes of B and C and their timeouts.
NextWarning ==
  \/ MouseDown("B", FALSE)
  \/ MouseMove("B", <<29, 17>>, FALSE)
  \/ MouseUp("B", FALSE)
  \/ Dispose("B", FALSE, FALSE)
  \/ \E text \in WarnTexts, id \in WarnIds : SetWarningText("B", text, id)
  \/ \E id \in WarnIds : SetWarningText("C", "w", id)
  \/ \E p \in WarnCalls : WarningTimeout(p)

SpecWarning ==
  Init /\ [][NextWarning]_vars

\* Drags of B, its disposal, warning-text changes of B and their timeouts.
NextDefer ==
  \/ MouseDown("B", FALSE)
  \/ MouseMove("B", <<29, 17>>, FALSE)
  \/ MouseUp("B", FALSE)
  \/ Dispose("B", FALSE, FALSE)
  \/ \E text \in WarnTexts, id \in WarnIds : SetWarningText("B", text, id)
  \/ \E p \in WarnCalls : WarningTimeout(p)

\* A timeout that stays pending fires: setTimeout runs its function after
\* 100 ms whatever else happens.
SpecDefer ==
  Init /\ [][NextDefer]_vars /\ \A p \in WarnCalls : WF_vars(WarningTimeout(p))

\* moveBy calls on the stack P-B and on C, and renders of B and C.
NextMove ==
  \/ \E b \in {"P", "C"}, d \in {<<2, 0>>, <<0, 4>>, <<-2, -4>>} : MoveBy(b, d)
  \/ \E b \in {"B", "C"} : RenderOnly(b)

\* Any of B and C may be fresh.
SpecMove ==
  (\E fresh \in SUBSET {"B", "C"} :
     InitAt({"B", "F"}, <<45, 17>>, MaxPending, fresh, {DefaultGrid}, {<< >>}))
    /\ [][NextMove]_vars

\* C moved about, snapToGrid called on any block, drags of B ended by the
\* next press or by the disposal of B, and the tasks they leave.
NextSnap ==
  \/ \E d \in {<<1, 2>>, <<-1, -2>>} : MoveBy("C", d)
  \/ \E b \in Blocks : SnapToGrid(b)
  \/ MouseDown("B", FALSE)
  \/ MouseMove("B", <<29, 17>>, FALSE)
  \/ \E k \in Tasks : FireTimer(k)
  \/ Dispose("B", FALSE, FALSE)

\* Any grid configuration.
SpecSnap ==
  InitAt({"B", "F"}, <<45, 17>>, MaxPending, {}, Grids, {<< >>})
    /\ [][NextSnap]_vars

\* The blocks of the stack are rendered and measured, in any order.
NextDesign ==
  \/ \E i \in 1..MaxChain : RenderDesign(i)
  \/ \E i \in 1..MaxChain : MeasureDesign(i)

\* Any stack of block definitions.
SpecDesign ==
  InitAt({"B", "F"}, <<45, 17>>, MaxPending, {}, {DefaultGrid}, Designs)
    /\ [][NextDesign]_vars

\* Left-button presses and releases, and select() and unselect() calls on
\* any block.
NextSelect ==
  \/ \E b \in Blocks : MouseDown(b, FALSE)
  \/ \E b \in Blocks : MouseUp(b, FALSE)
  \/ \E b \in Blocks : Select(b)
  \/ \E b \in Blocks : Unselect(b)

SpecSelect ==
  Init /\ [][NextSelect]_vars

\* Left-button pointer events away from the delete area, with select() and
\* unselect() called on workspace blocks in between.
NextSession ==
  \/ \E b \in Blocks : MouseDown(b, FALSE)
  \/ MouseMove("B", <<29, 17>>, FALSE)
  \/ MouseUp("B", FALSE)
  \/ \E b \in {"P", "C"} : Select(b)
  \/ \E b \in {"B", "C"} : Unselect(b)

SpecSession ==
  Init /\ [][NextSession]_vars

\* Left-button drags away from the delete area and the deferred tasks.
NextPending ==
  \/ \E b \in Blocks : MouseDown(b, FALSE)
  \/ \E b \in Blocks, newXY \in Points : MouseMove(b, newXY, FALSE)
  \/ \E b \in Blocks : MouseUp(b, FALSE)
  \/ \E k \in Tasks : FireTimer(k)

\* The workspace of Init, followed until one more task of a kind is pending.
SpecPending ==
  InitAt({"B", "F"}, <<45, 17>>, MaxPending + 1, {}, {DefaultGrid}, {<< >>})
    /\ [][NextPending]_vars

\* Left-button drags away from the delete area, the deferred tasks, and
\* render calls with and without upward propagation.
NextRender ==
  \/ \E b \in Blocks : MouseDown(b, FALSE)
  \/ \E b \in Blocks, newXY \in Points : MouseMove(b, newXY, FALSE)
  \/ \E b \in Blocks : MouseUp(b, FALSE)
  \/ \E k \in Tasks : FireTimer(k)
  \/ \E b \in Blocks : Render(b)
  \/ \E b \in Blocks : RenderOnly(b)

SpecRender ==
  Init /\ [][NextRender]_vars

\* Pointer events, disposal, and operations invoked on disposed blocks.
NextStale ==
  \/ \E b \in Blocks, rightButton \in BOOLEAN : MouseDown(b, rightButton)
  \/ \E b \in Blocks, newXY \in Points : MouseMove(b, newXY, FALSE)
  \/ \E b \in Blocks, inDeleteArea \in BOOLEAN : MouseUp(b, inDeleteArea)
  \/ \E b \in Blocks, healStack \in BOOLEAN, animate \in BOOLEAN :
       Dispose(b, healStack, animate)
  \/ \E b \in Blocks, fn \in GeometryFns : StaleCall(b, fn)

SpecStale ==
  Init /\ [][NextStale]_vars

-----------------------------------------------------------------------------
(* Properties *)

\* The blocks with a handler of the given event type bound on the document.
Bound(type) ==
  {b \in Blocks : listeners[<<type, b>>] > 0}

ConnectEffects(f) ==
  SelectSeq(f.effects, LAMBDA e : e.kind = "connect")

\* The height render gives a block, from the block's own fields alone.
OwnHeight(b) ==
  LET images == SelectSeq(Flatten(inputList[b]), LAMBDA f : f.image)
      iconHeight == IF images = << >> THEN 0 ELSE images[Len(images)].size[2]
  IN  Max(2 * SEP_SPACE_Y + iconHeight, NOTCH_HEIGHT + 16 + 2 * CORNER_RADIUS)
        + (IF nextConnection[b] # Null THEN 4 ELSE 0)

\* C1: at most one drag session exists at any time.  No handler is bound
\* twice and all bound handlers belong to one block; after a pointerDown on a
\* movable workspace block, whatever session was active before, the mode is
\* STICKY and exactly the pressed block's mouse-up and mouse-move handlers
\* are bound; a FREE session it replaced has been terminated (its two
\* deferred tasks are scheduled).
C1_OneDragSession ==
  /\ \A l \in DOMAIN listeners : listeners[l] <= 1
  /\ Cardinality(Bound("mouseup") \cup Bound("mousemove")) <= 1
  /\ (dragMode_ # 0) => (Bound("mouseup") = {selected} /\ Bound("mousemove") = {selected})
  /\ (fx.op = "mouseDown" /\ ~isInFlyout[fx.block] /\ ~fx.rightButton
        /\ movable[fx.block])
       => /\ dragMode_ = 1
          /\ Bound("mouseup") = {fx.block}
          /\ Bound("mousemove") = {fx.block}
          /\ onMouseUpWrapper_ = fx.block
          /\ onMouseMoveWrapper_ = fx.block
          /\ fx.from = 2 => Len(fx.scheduled) = 2

\* C1 witness: a pointerDown on a movable block arrived while the FREE
\* session of another block was active.
C1_Witness ==
  /\ fx.op = "mouseDown"
  /\ fx.from = 2
  /\ dragMode_ = 1
  /\ Bound("mouseup") = {fx.block}
  /\ \E i \in DOMAIN fx.scheduled : fx.scheduled[i].block # fx.block

\* C2: after any pointerDown handled by a workspace block, no connection is
\* highlighted (Blockly.highlightedConnection_ is null).
C2_NoHighlightAfterPointerDown ==
  (fx.op = "mouseDown" /\ ~isInFlyout[fx.block]) => highlightedConnection_ = Null

C4_EveryReleaseSchedules ==
  fx.op = "mouseUp" =>
    /\ \E i, j \in DOMAIN fx.scheduled :
         /\ fx.scheduled[i].fn = "snapToGrid"
         /\ fx.scheduled[j].fn = "bumpNeighbours_"
         /\ fx.scheduled[i].block = fx.block
         /\ fx.scheduled[j].block = fx.block
         /\ fx.scheduled[i].delay < fx.scheduled[j].delay
    /\ fx.resizes >= 1

\* C4 amended: a pointerUp that ends a FREE session schedules exactly the
\* grid snap and the neighbour bump of the released block, the snap with the
\* shorter delay, and raises the resize notification; a pointerUp that ends a
\* STICKY session schedules nothing.
C4_FreeReleaseSchedules ==
  fx.op = "mouseUp" =>
    IF fx.from = 2
      THEN /\ \E d1, d2 \in 1..BUMP_DELAY :
                /\ d1 < d2
                /\ fx.scheduled =
                     << [fn |-> "snapToGrid", block |-> fx.block, delay |-> d1],
                        [fn |-> "bumpNeighbours_", block |-> fx.block, delay |-> d2] >>
           /\ fx.resizes >= 1
      ELSE fx.scheduled = << >>

\* C4 witness: a release that ended a FREE session and scheduled both tasks.
C4_Witness ==
  /\ fx.op = "mouseUp"
  /\ fx.from = 2
  /\ Len(fx.scheduled) = 2
  /\ fx.resizes >= 1

\* C5: after every pointerUp the session is idle (dragMode_ = 0, no handler
\* bound, both wrappers null) and no connection is highlighted.
C5_IdleAfterRelease ==
  fx.op = "mouseUp" =>
    /\ dragMode_ = 0
    /\ onMouseUpWrapper_ = Null
    /\ onMouseMoveWrapper_ = Null
    /\ \A l \in DOMAIN listeners : listeners[l] = 0
    /\ highlightedConnection_ = Null
    /\ highlightDrawn = {}

\* C5 witness: a release that took the connect branch and left the session
\* idle.
C5_Witness ==
  /\ fx.op = "mouseUp"
  /\ fx.connects # << >>
  /\ dragMode_ = 0
  /\ highlightedConnection_ = Null

\* C6: on pointerUp the released block is disposed if and only if no
\* connection is highlighted and the block has no parent, is deletable and is
\* released over the delete area; released over the delete area with a
\* connection highlighted it is connected and not disposed.
C6_DeleteIff ==
  [][(fx'.op = "mouseUp") =>
       /\ (fx'.block \in fx'.disposed) <=>
            /\ highlightedConnection_ = Null
            /\ parentBlock_[fx'.block] = Null
            /\ deletable[fx'.block]
            /\ fx'.inDeleteArea
       /\ (highlightedConnection_ # Null /\ fx'.inDeleteArea) =>
            /\ fx'.connects # << >>
            /\ fx'.disposed = {}
            /\ workspace'[fx'.block]]_vars

\* C6 witness: a top-level deletable block released over the delete area was
\* disposed.
C6_Witness ==
  /\ fx.op = "mouseUp"
  /\ fx.inDeleteArea
  /\ fx.block \in fx.disposed
  /\ ~workspace[fx.block]

\* C7 as stated: every pointerMove in STICKY switches to FREE exactly when
\* the distance from the block's position to the pointer-derived position,
\* times the scale, is strictly greater than DRAG_RADIUS.
C7_EveryMoveThreshold ==
  [][(fx'.op = "mouseMove" /\ dragMode_ = 1) =>
       LET oldXY == getRelativeToSurfaceXY(S, fx'.block)
           far == Dist2(oldXY, fx'.newXY) * scale[1] * scale[1]
                    > DRAG_RADIUS * DRAG_RADIUS * scale[2] * scale[2]
       IN  (dragMode_' = 2) <=> far]_vars

\* C7 amended: a pointerMove in STICKY that does not carry the rogue-event
\* signature switches to FREE exactly when the distance from the block's
\* position to the pointer-derived position, times the scale, is strictly
\* greater than DRAG_RADIUS; otherwise the session stays STICKY and the block
\* is neither moved nor detached.  A move with the rogue signature is ignored.
C7_Threshold ==
  [][(fx'.op = "mouseMove" /\ dragMode_ = 1) =>
       LET oldXY == getRelativeToSurfaceXY(S, fx'.block)
           far == Dist2(oldXY, fx'.newXY) * scale[1] * scale[1]
                    > DRAG_RADIUS * DRAG_RADIUS * scale[2] * scale[2]
       IN  IF far /\ ~fx'.rogue
             THEN dragMode_' = 2
             ELSE /\ dragMode_' = 1
                  /\ translate' = translate
                  /\ parentBlock_' = parentBlock_
                  /\ childBlocks_' = childBlocks_
                  /\ parentNode' = parentNode
                  /\ targetConnection' = targetConnection
                  /\ connXY' = connXY]_vars

\* C7 witness: a genuine move to a scaled distance of exactly DRAG_RADIUS
\* left the session STICKY.
C7_Witness ==
  /\ fx.op = "mouseMove"
  /\ fx.from = 1
  /\ ~fx.rogue
  /\ dragMode_ = 1
  /\ Dist2(getRelativeToSurfaceXY(S, fx.block), fx.newXY) * scale[1] * scale[1]
       = DRAG_RADIUS * DRAG_RADIUS * scale[2] * scale[2]

\* C8: a block that goes from STICKY to FREE is detached: it has no parent,
\* no block lists it as a child, its group hangs off the canvas and its
\* previous connection is free; and every render gives the rendered block
\* the height of its own fields and leaves its width alone, so a render of
\* the former parent contains nothing of the detached block.
C8_DetachedOnFree ==
  /\ (fx.op = "mouseMove" /\ fx.from = 1 /\ dragMode_ = 2) =>
       /\ parentBlock_[fx.block] = Null
       /\ \A p \in Blocks : fx.block \notin childBlocks_[p]
       /\ parentNode[fx.block] = Canvas
       /\ previousConnection[fx.block] # Null =>
            targetConnection[previousConnection[fx.block]] = Null
  /\ fx.op = "render" =>
       \A p \in Range(fx.renders) : height[p] = OwnHeight(p) /\ width[p] = 0

\* C8 witness: P is rendered while B, detached from it, is dragged in FREE.
C8_Witness ==
  /\ fx.op = "render"
  /\ fx.block = "P"
  /\ dragMode_ = 2
  /\ selected = "B"
  /\ childBlocks_["P"] = {}
  /\ height["P"] = OwnHeight("P")

\* C9: in FREE, after a pointerMove every captured bubble sits at its
\* captured position plus (the block's new position - the drag start).
C9_BubblesFollowBlock ==
  (fx.op = "mouseMove" /\ ~fx.rogue /\ dragMode_ = 2) =>
    \A data \in draggedBubbles_[fx.block] :
      iconXY[data.bubble] =
        Plus(<<data.x, data.y>>,
             Minus(getRelativeToSurfaceXY(S, fx.block), dragStartXY_[fx.block]))

\* C10: in FREE, the trial offset a pointerMove passes to closest() is the
\* position this move gives the block minus the drag start.
C10_TrialOffsetIsLive ==
  (fx.op = "mouseMove" /\ ~fx.rogue /\ dragMode_ = 2) =>
    fx.trial = {Minus(fx.newXY, dragStartXY_[fx.block])}

\* The squared distance from own connection m, displaced by the trial offset
\* d, to connection c.
TrialDist2(m, c, d) ==
  Dist2(Plus(connXY[m], d), connXY[c])

\* The pairs <<index of own connection, candidate>> of block b that lie
\* strictly within SNAP_RADIUS under the trial offset d.
PairsInRange(b, d) ==
  LET mine == getConnections_(S, b, FALSE)
  IN  {p \in (DOMAIN mine) \X Conns :
         /\ p[2] \in Candidates(S, mine[p[1]])
         /\ TrialDist2(mine[p[1]], p[2], d) < SNAP_RADIUS * SNAP_RADIUS}

C12_SingleHighlight ==
  /\ [](highlightDrawn = IF highlightedConnection_ = Null
                            THEN {}
                            ELSE {highlightedConnection_})
  /\ [][(fx'.op = "mouseMove" /\ highlightedConnection_ # Null
           /\ highlightedConnection_' # highlightedConnection_)
          => fx'.lit =
               << [kind |-> "unhighlight", connection |-> highlightedConnection_] >>
               \o (IF highlightedConnection_' = Null
                     THEN << >>
                     ELSE << [kind |-> "highlight",
                              connection |-> highlightedConnection_'] >>)]_vars

\* C12 witness: a pointerMove replaced one highlighted candidate by another.
C12_Witness ==
  /\ fx.op = "mouseMove"
  /\ Len(fx.lit) = 2
  /\ fx.lit[1].kind = "unhighlight"
  /\ fx.lit[2].kind = "highlight"
  /\ fx.lit[2].connection = highlightedConnection_
  /\ fx.lit[1].connection # highlightedConnection_

\* C13: after dispose() of the block whose drag session was active, the drag
\* mode is 0 and no handler is bound, and the call has not rendered the
\* block and has scheduled no deferred grid-snap or neighbour-bump.
C13_DisposedDragIsNoOp ==
  (fx.op = "dispose" /\ fx.from # 0 /\ fx.block \in fx.disposed) =>
    /\ dragMode_ = 0
    /\ Bound("mouseup") = {}
    /\ Bound("mousemove") = {}
    /\ fx.block \notin Range(fx.renders)
    /\ fx.scheduled = << >>

\* C14: getRelativeToSurfaceXY, moveBy, moveConnections_, snapToGrid and
\* render, invoked on a disposed block (SVG root null, workspace cleared,
\* rendered false), raise no error and change no state.
C14_StaleOpsAreNoOps ==
  [][(/\ fx'.op \in GeometryFns
      /\ ~svgGroup_[fx'.block]
      /\ ~workspace[fx'.block]
      /\ ~rendered[fx'.block])
       => (~fx'.threw /\ core' = core)]_vars

RECURSIVE AncestorChain(_)
\* Block b followed by its ancestors, child to root.
AncestorChain(b) ==
  IF parentBlock_[b] = Null
    THEN <<b>>
    ELSE <<b>> \o AncestorChain(parentBlock_[b])

\* C15: render() of a live block with upward propagation has rendered the
\* block, then its ancestors, each once, child to root, and raised one
\* resize notification; render(false) has rendered the block alone and
\* raised none.
C15_RenderPropagates ==
  /\ (fx.op = "render" /\ svgGroup_[fx.block]) =>
        (fx.renders = AncestorChain(fx.block) /\ fx.resizes = 1 /\ ~fx.threw)
  /\ fx.op = "renderOnly" =>
        (fx.renders = <<fx.block>> /\ fx.resizes = 0 /\ ~fx.threw)

\* C15 witness: a render that propagated from a block through its parent to
\* its grandparent.
C15_Witness ==
  /\ fx.op = "render"
  /\ Len(fx.renders) = 3
  /\ parentBlock_[fx.renders[1]] = fx.renders[2]
  /\ parentBlock_[fx.renders[2]] = fx.renders[3]

\* C16: in every state a disposed block (workspace cleared or SVG root
\* removed) has rendered = false: dispose clears the flag, and no deferred
\* task, animation step or drag termination that follows sets it again.
C16_DisposedStaysUnrendered ==
  \A b \in Blocks : (~workspace[b] \/ ~svgGroup_[b]) => ~rendered[b]

\* C16 witness: a deferred task of a block fired after the block was
\* disposed.
C16_Witness ==
  /\ fx.op \in {"snapToGrid", "bumpNeighbours_"}
  /\ ~svgGroup_[fx.block]
  /\ ~rendered[fx.block]

\* C17: for every block at most one deferred grid-snap and at most one
\* deferred neighbour-bump is pending.
C17_OnePendingPerKind ==
  \A k \in Tasks : timers[k] <= 1

\* C18: at most one warning-text commit is pending per block and id; after a
\* setWarningText call with an id the only commit pending for that block and
\* id is the one the call queued (none unless a free drag is on); after a
\* call without id the same holds and no commit of the block is pending
\* under any other id.
C18_OneCommitPending ==
  /\ [](\A b \in Blocks, id \in WarnIds :
          timeouts[<<b, id, "w">>] + timeouts[<<b, id, Null>>] <= 1)
  /\ [][fx'.op = "setWarningText" =>
          LET b == fx'.block
              id == fx'.call[1]
              queued == <<b, id, fx'.call[2]>>
          IN  /\ \A p \in WarnCalls :
                   (p[1] = b /\ (p[2] = id \/ id = "")) =>
                     timeouts'[p] = IF dragMode_ = 2 /\ p = queued THEN 1 ELSE 0
              /\ dragMode_ = 2 => pid_'[id] = queued]_vars

\* C18 witness: a call without id during a free drag cancelled two pending
\* commits of its block, one without id and one with an id.
C18_Witness ==
  /\ fx.op = "setWarningText"
  /\ fx.call[1] = ""
  /\ dragMode_ = 2
  /\ Len(fx.cleared) = 2
  /\ \A i \in 1..2 : fx.cleared[i][1] = fx.block
  /\ fx.cleared[1][2] # fx.cleared[2][2]

\* The number of pending wiggle steps over all groups.
RECURSIVE PendingWiggles(_, _)
PendingWiggles(t, groups) ==
  IF groups = {}
    THEN 0
    ELSE LET g == CHOOSE g \in groups : TRUE
         IN  t[g] + PendingWiggles(t, groups \ {g})

\* C19: at most one wiggle step is pending at any time, and it is the one
\* disconnectUiStop_ can cancel; right after a pointer press, a pointer
\* release or the disposal of the selected block no wiggle step is pending,
\* no group is registered as wiggling and the group that wiggled has no skew;
\* a wiggle step only ever runs for the registered group.
C19_WiggleCancelled ==
  /\ [](/\ PendingWiggles(wiggleTimers, Blocks) <= 1
        /\ \A g \in Blocks :
             wiggleTimers[g] > 0 => wiggleGroup = g /\ wigglePid = g)
  /\ [][(\/ fx'.op \in {"mouseDown", "mouseUp"}
          \/ (fx'.op = "dispose" /\ selected = fx'.block))
         => /\ PendingWiggles(wiggleTimers', Blocks) = 0
            /\ wiggleGroup' = Null
            /\ (wiggleGroup # Null => ~skew_'[wiggleGroup])]_vars
  /\ [][fx'.op = "wiggle" => wiggleGroup = fx'.block]_vars

\* C19 witness: a pointer release stopped a wiggle whose next step was
\* still pending.
C19_Witness ==
  /\ fx.op = "mouseUp"
  /\ Len(fx.stopped) = 1
  /\ fx.stopped[1].pending
  /\ wiggleTimers[fx.stopped[1].group] = 0
  /\ ~skew_[fx.stopped[1].group]

\* C20: at most one block carries the selected mark, and a block carries it
\* exactly when the global selection references it.
C20_SelectionSingular ==
  /\ Cardinality(blocklySelected) <= 1
  /\ \A b \in Blocks : b \in blocklySelected <=> selected = b

\* C21: after moveBy(dx, dy) on a block every connection of the block and of
\* each of its descendants lies at its position before the call plus
\* (dx, dy), rendered or not.
C21_MoveByShiftsAll ==
  [][fx'.op = "moveBy" =>
       \A c \in Conns :
         sourceBlock_[c] \in getDescendants(S, fx'.block) =>
           connXY'[c] = Plus(connXY[c], fx'.call)]_vars

\* snapToGrid applies to block b: live, no drag, top-level, not in the
\* palette, snapping enabled.
SnapApplies(b) ==
  /\ workspace[b]
  /\ dragMode_ = 0
  /\ parentBlock_[b] = Null
  /\ ~isInFlyout[b]
  /\ gridOptions.present /\ gridOptions.snap

\* round(round((p - s/2) / s) * s + s/2 - p): round((p - s/2) / s) is the
\* index of the grid cell holding p, so the outcome is the cell's centre,
\* with a half rounded up, minus p.
CellShift(p, spacing) ==
  spacing * (p \div spacing) + (spacing + 1) \div 2 - p

\* C22: where snapToGrid applies the block moves by CellShift on each axis,
\* and nothing moves when both shifts are 0.
C22_SnapOffset ==
  [][(fx'.op \in {"snapToGrid", "callSnapToGrid"} /\ SnapApplies(fx'.block)) =>
       LET b == fx'.block
           p == getRelativeToSurfaceXY(S, b)
           o == <<CellShift(p[1], gridOptions.spacing),
                  CellShift(p[2], gridOptions.spacing)>>
       IN  /\ translate' = [translate EXCEPT ![b] = Plus(p, o)]
           /\ (o = <<0, 0>> => connXY' = connXY /\ iconXY' = iconXY)]_vars

\* C22 witness: snapToGrid moved a block on a grid of spacing 5 by different
\* non-zero offsets on the two axes.
C22_Witness ==
  /\ fx.op = "callSnapToGrid"
  /\ gridOptions.spacing = 5
  /\ fx.call # << >>
  /\ fx.call[1] # 0 /\ fx.call[2] # 0 /\ fx.call[1] # fx.call[2]
  /\ translate[fx.block][1] % 5 = 3 /\ translate[fx.block][2] % 5 = 3

\* C23: snapToGrid, called directly or run as a deferred task, moves no
\* block and no connection when a drag is in progress, the block has a
\* parent, is a palette block, is deleted, or snapping is not enabled.
C23_SnapSkipped ==
  [][(fx'.op \in {"snapToGrid", "callSnapToGrid"} /\ ~SnapApplies(fx'.block)) =>
       /\ translate' = translate
       /\ connXY' = connXY
       /\ iconXY' = iconXY]_vars

\* C23 witness: the deferred snapToGrid of a block ran after the next drag
\* of that block had started, with snapping on and the block off the grid.
C23_Witness ==
  /\ fx.op = "snapToGrid"
  /\ dragMode_ # 0
  /\ selected = fx.block
  /\ workspace[fx.block]
  /\ parentBlock_[fx.block] = Null
  /\ gridOptions.snap
  /\ CellShift(getRelativeToSurfaceXY(S, fx.block)[1], gridOptions.spacing) # 0

\* The least height renderCompute_ gives a block.
MinHeight ==
  NOTCH_HEIGHT + 16 + 2 * CORNER_RADIUS

\* The height of the image field block definition def is laid out with (0
\* without one).
IconHeight(def) ==
  findIconIn(def.inputList).size[2]

\* C24: a rendered block's stored height is max(2*SEP_SPACE_Y + iconHeight,
\* NOTCH_HEIGHT + 16 + 2*CORNER_RADIUS), plus 4 exactly when it has a next
\* connection; it is that maximum for a block without previous connection,
\* next connection and statement input, 56 without an icon, and never below
\* the minimum.
C24_StoredHeight ==
  \A i \in DOMAIN design :
    drawing.rendered[i] =>
      LET def == design[i]
          base == Max(2 * SEP_SPACE_Y + IconHeight(def), MinHeight)
          hasStatement == \E k \in DOMAIN def.inputList :
                            def.inputList[k].type = "statement"
      IN  /\ drawing.height[i] = base + (IF def.next THEN 4 ELSE 0)
          /\ drawing.height[i] >= MinHeight
          /\ (~def.previous /\ ~def.next /\ ~hasStatement) =>
                /\ drawing.height[i] = base
                /\ (IconHeight(def) = 0 => drawing.height[i] = 56)

\* C24 witness: a stack is rendered whose top block has a next connection
\* and an icon higher than the minimum allows for, and whose second block
\* has no next connection and no icon.
C24_Witness ==
  /\ Len(design) = 2
  /\ drawing.rendered[1] /\ drawing.rendered[2]
  /\ IconHeight(design[1]) = 56 /\ drawing.height[1] = 76
  /\ ~design[2].next /\ IconHeight(design[2]) = 0 /\ drawing.height[2] = 56

\* The positions of the commands of a kind in a path.
Where(steps, c) ==
  {k \in DOMAIN steps : steps[k].c = c}

\* The greatest element of a non-empty set of numbers.
Last(ks) ==
  CHOOSE k \in ks : \A j \in ks : j <= k

RECURSIVE Shift(_, _, _)
\* The sum of the relative moves of commands lo..hi of a path.
Shift(steps, lo, hi) ==
  IF lo > hi
    THEN <<0, 0>>
    ELSE IF lo = hi
      THEN IF steps[lo].c \in {"m", "l", "a", "h", "v"}
             THEN <<steps[lo].x, steps[lo].y>> ELSE <<0, 0>>
      ELSE Plus(Shift(steps, lo, (lo + hi) \div 2),
                Shift(steps, (lo + hi) \div 2 + 1, hi))

\* The pen after the first k commands of a path without a close among them:
\* on each axis the latest absolute coordinate, or 0, plus the relative
\* moves since.
PenBeforeClose(steps, k) ==
  LET absX == {j \in 1..k : steps[j].c \in {"A", "H"}}
      absY == {j \in 1..k : steps[j].c \in {"A", "V"}}
      x == IF absX = {} THEN Shift(steps, 1, k)[1]
           ELSE steps[Last(absX)].x + Shift(steps, Last(absX) + 1, k)[1]
      y == IF absY = {} THEN Shift(steps, 1, k)[2]
           ELSE steps[Last(absY)].y + Shift(steps, Last(absY) + 1, k)[2]
  IN  <<x, y>>

\* The pen after the first k commands and the start of the contour it is
\* on; a close takes the pen back to the start.
PenAt(steps, k) ==
  LET moves == {j \in 1..k : steps[j].c = "m"}
      start == IF moves = {} THEN <<0, 0>> ELSE PenBeforeClose(steps, Last(moves))
  IN  [pen |-> IF k > 0 /\ steps[k].c = "z" THEN start ELSE PenBeforeClose(steps, k),
       start |-> start]

\* C25: the outline of a rendered block has one move-to, its first command,
\* and one close, its last; the pen before the close is on the row y = 0
\* of the start; and the bottom edge's line to the right corner starts at
\* the y the bottom-left corner ended on, statement recess or not.
C25_ClosedContour ==
  \A i \in DOMAIN design :
    drawing.rendered[i] =>
      LET steps == drawing.steps[i]
          n == Len(steps)
          bottomLeft == CHOOSE k \in Where(steps, "a") :
                          \A j \in Where(steps, "a") : k <= j
          bottomLine == CHOOSE k \in Where(steps, "H") : TRUE
      IN  /\ Where(steps, "m") = {1}
          /\ Where(steps, "z") = {n}
          /\ PenAt(steps, n - 1).pen[2] = 0
          /\ PenAt(steps, n - 1).start[2] = 0
          /\ PenAt(steps, n).pen = PenAt(steps, 1).pen
          /\ Cardinality(Where(steps, "H")) = 1
          /\ PenAt(steps, bottomLine).pen[2] = PenAt(steps, bottomLeft).pen[2]
          /\ PenAt(steps, bottomLine - 1).pen[2] = PenAt(steps, bottomLeft).pen[2]

\* C25 witness: the outline of a block with previous connection, statement
\* input and no next connection is drawn.
C25_Witness ==
  \E i \in DOMAIN design :
    /\ drawing.rendered[i]
    /\ design[i].previous /\ ~design[i].next
    /\ \E k \in DOMAIN design[i].inputList :
         design[i].inputList[k].type = "statement"
    /\ Len(drawing.steps[i]) > 20

RECURSIVE SumFrom(_, _)
\* The sum of the elements of a sequence of numbers from position i on.
SumFrom(q, i) ==
  IF i > Len(q) THEN 0 ELSE q[i] + SumFrom(q, i + 1)

\* C26: the footprint measured on block i of a stack of n blocks has the
\* height of block i plus the footprint height of block i + 1 minus 4 and
\* the greater of the two widths; over the blocks i..n that is the sum of
\* their heights minus 4 for each chained pair plus the last block's bottom
\* margin; a single block's footprint is its own height plus its margin.
C26_Footprint ==
  drawing.measured > 0 =>
    LET i == drawing.measured
        n == Len(design)
        below == getHeightWidth(design, drawing, i + 1)
        margin == IF ~design[n].next /\ ~design[n].output THEN 2 ELSE 0
    IN  /\ drawing.footprint.height =
             SumFrom(drawing.height, i) - 4 * (n - i) + margin
        /\ i < n =>
             /\ drawing.footprint.height = drawing.height[i] + below.height - 4
             /\ drawing.footprint.width = Max(drawing.width[i], below.width)

\* C26 witness: the footprint of a rendered stack of two blocks is measured
\* on its top block, the lower block ending the stack without a tab.
C26_Witness ==
  /\ drawing.measured = 1
  /\ Len(design) >= 2
  /\ \A i \in DOMAIN design : drawing.rendered[i]
  /\ ~design[Len(design)].next
  /\ drawing.footprint.height > drawing.height[1] + 50

\* C27: a block that ends a stack gets the bottom margin of 2 in its
\* footprint exactly when it has neither a previous nor a next connection.
C27_MarginIffNoPreviousNoNext ==
  (drawing.measured > 0 /\ drawing.measured = Len(design)) =>
    LET i == drawing.measured
    IN  (drawing.footprint.height = drawing.height[i] + 2)
          <=> (~design[i].previous /\ ~design[i].next)

\* C27 as the code has it: a block that ends a stack gets the bottom margin
\* of 2 in its footprint exactly when it has neither a next nor an output
\* connection; otherwise its footprint height is its own height.
C27_MarginIffNoNextNoOutput ==
  (drawing.measured > 0 /\ drawing.measured = Len(design)) =>
    LET i == drawing.measured
    IN  drawing.footprint.height =
          drawing.height[i] + (IF ~design[i].next /\ ~design[i].output THEN 2 ELSE 0)

\* C27 witness: a rendered block with a previous and without a next
\* connection is measured and has the margin.
C27_Witness ==
  /\ drawing.measured > 0
  /\ drawing.measured = Len(design)
  /\ drawing.rendered[drawing.measured]
  /\ design[drawing.measured].previous
  /\ ~design[drawing.measured].next
  /\ drawing.footprint.height = drawing.height[drawing.measured] + 2

\* C28: the icon a rendered block is laid out with is the first image field
\* of its input list, in input order then field order.
C28_FirstImageWins ==
  \A i \in DOMAIN design :
    drawing.rendered[i] =>
      LET images == SelectSeq(Flatten(design[i].inputList), LAMBDA f : f.image)
      IN  images # << >> => drawing.icon[i] = images[1]

\* C29: from pointerDown to the pointerUp that ends a FREE drag without a
\* connection (and without deleting the block), the connections of the
\* dragged block and of its descendants stay where they were at every move
\* of the drag, and the pointerUp shifts each of them by the block's final surface
\* position minus its drag start position and moves none of these blocks.
C29_ConnectionsFollowDrag ==
  [][/\ (fx'.op = "mouseMove" /\ dragMode_ # 0 /\ selected = fx'.block) =>
          \A c \in Conns :
            sourceBlock_[c] \in getDescendants(S, selected) => connXY'[c] = connXY[c]
     /\ \A b \in Blocks :
          (/\ fx'.op = "mouseUp"
           /\ fx'.block = b
           /\ dragMode_ = 2
           /\ selected = b
           /\ ~fx'.threw
           /\ fx'.connects = << >>
           /\ fx'.disposed = {}) =>
            /\ \A c \in {k \in Conns : sourceBlock_[k] \in getDescendants(S, b)} :
                 connXY'[c] =
                   Plus(connXY[c],
                        Minus(getRelativeToSurfaceXY(S, b)', dragStartXY_[b]))
            /\ \A e \in getDescendants(S, b) :
                 getRelativeToSurfaceXY(S, e)' = getRelativeToSurfaceXY(S, e)]_vars

\* C29 witness: a FREE drag of a block with a descendant has ended without a
\* connection, away from where it started.
C29_Witness ==
  /\ fx.op = "mouseUp"
  /\ fx.from = 2
  /\ ~fx.threw
  /\ fx.connects = << >>
  /\ fx.disposed = {}
  /\ childBlocks_[fx.block] # {}
  /\ getRelativeToSurfaceXY(S, fx.block) # dragStartXY_[fx.block]

\* C30: a session that stays STICKY changes nothing: the pointerDown that
\* starts it (no FREE session to end, no connection highlighted), every
\* pointerMove within the drag radius and the pointerUp outside the delete
\* area leave every parent, every surface position and every connection
\* position and link as they were, call no connect, play no disconnect
\* animation and leave no connection highlighted.
C30_StickyChangesNothing ==
  [][(/\ highlightedConnection_ = Null
      /\ \/ fx'.op = "mouseDown" /\ ~fx'.rightButton /\ dragMode_ # 2 /\ dragMode_' = 1
         \/ fx'.op = "mouseMove" /\ dragMode_ = 1 /\ dragMode_' = 1
         \/ fx'.op = "mouseUp" /\ dragMode_ = 1 /\ ~fx'.inDeleteArea) =>
       /\ parentBlock_' = parentBlock_
       /\ childBlocks_' = childBlocks_
       /\ \A b \in Blocks :
            getRelativeToSurfaceXY(S, b)' = getRelativeToSurfaceXY(S, b)
       /\ connXY' = connXY
       /\ targetConnection' = targetConnection
       /\ fx'.connects = << >>
       /\ \A i \in DOMAIN fx'.effects : fx'.effects[i].kind # "disconnect"
       /\ skew_' = skew_
       /\ wiggleTimers' = wiggleTimers
       /\ highlightedConnection_' = Null]_vars

\* C30 witness: a session of a block with a parent ends in STICKY, released
\* outside the delete area after a move that was within the drag radius.
C30_Witness ==
  /\ fx.op = "mouseUp"
  /\ fx.from = 1
  /\ ~fx.inDeleteArea
  /\ ~fx.threw
  /\ parentBlock_[fx.block] # Null
  /\ dragStartXY_[fx.block] = getRelativeToSurfaceXY(S, fx.block)
  /\ listeners[<<"mousemove", fx.block>>] = 0

\* C31: a rendered block's stored width is the width of its metrics,
\* 2 * SEP_SPACE_X plus the width of its icon, and a footprint measured on a
\* rendered block that ends its stack reports that width.
C31_StoredWidth ==
  \A i \in DOMAIN design :
    drawing.rendered[i] =>
      /\ drawing.width[i] = computeMetrics(design[i].inputList).width
      /\ (drawing.measured = i /\ i = Len(design)) =>
           drawing.footprint.width = computeMetrics(design[i].inputList).width

\* C32: setParent(null) on an attached block makes it a top-level block on
\* the canvas and leaves the surface position of every block and the
\* position of every connection as they were.
C32_DetachKeepsPlace ==
  [][fx'.op = "setParent" =>
       /\ parentBlock_'[fx'.block] = Null
       /\ parentNode'[fx'.block] = Canvas
       /\ \A b \in Blocks :
            getRelativeToSurfaceXY(S, b)' = getRelativeToSurfaceXY(S, b)
       /\ connXY' = connXY]_vars

\* C32 witness: a block with a child of its own has been detached from its
\* parent by setParent(null) and lies away from the canvas origin.
C32_Witness ==
  /\ fx.op = "setParent"
  /\ parentBlock_[fx.block] = Null
  /\ childBlocks_[fx.block] # {}
  /\ translate[fx.block] = <<17, 1>>

\* C33: a setWarningText call made during a FREE drag, and a timeout of such
\* a call that fires during a FREE drag, leave every warning as it was and
\* leave the change pending; and a pending change of a live block goes away
\* only when its own timeout fires outside a FREE drag and applies its text
\* under its id, or when a later call for that id or without id supersedes
\* it.  With every pending timeout firing in the end (SpecDefer), the change
\* is eventually applied.
C33_DeferredUntilDragEnds ==
  [][/\ (fx'.op \in {"setWarningText", "warningTimeout"} /\ dragMode_ = 2) =>
          /\ warning' = warning
          /\ workspace[fx'.block] =>
               /\ timeouts'[<<fx'.block, fx'.call[1], fx'.call[2]>>] = 1
               /\ pid_'[fx'.call[1]] = <<fx'.block, fx'.call[1], fx'.call[2]>>
     /\ \A p \in {"B"} \X WarnIds \X WarnTexts :
          (timeouts[p] > 0 /\ timeouts'[p] < timeouts[p] /\ workspace'[p[1]]) =>
            \/ fx'.op = "setWarningText" /\ fx'.call[1] \in {p[2], ""}
            \/ /\ fx'.op = "warningTimeout"
               /\ fx'.block = p[1]
               /\ fx'.call = <<p[2], p[3]>>
               /\ dragMode_ # 2
               /\ IF p[3] = Null
                    THEN warning'[p[1]].text[p[2]] = ""
                    ELSE warning'[p[1]].on /\ warning'[p[1]].text[p[2]] = p[3]]_vars

\* C34: setWarningText(null, id) on a rendered block that has a warning
\* re-renders the block (and bumps its neighbours) exactly when the call
\* changed the warning's text or removed the warning.
C34_RedrawIffChanged ==
  [][\A b \in Blocks :
       (/\ fx'.op = "setWarningText"
        /\ fx'.block = b
        /\ fx'.call[1] # ""
        /\ fx'.call[2] = Null
        /\ dragMode_ # 2
        /\ warning[b].on
        /\ rendered[b]) =>
         ((Len(fx'.renders) > 0) <=> (warning'[b] # warning[b]))]_vars

\* C35: a setWarningText call on one block leaves every pending deferred
\* commit of another block as it was: still pending and still the one its
\* id's handle stands for.
C35_OtherBlocksCommitStays ==
  [][\A p \in WarnCalls :
       (/\ fx'.op = "setWarningText"
        /\ fx'.block # p[1]
        /\ timeouts[p] > 0
        /\ pid_[p[2]] = p) =>
         /\ timeouts'[p] = timeouts[p]
         /\ pid_'[p[2]] = p]_vars

\* C36: whenever a connection is highlighted, a drag session exists and the
\* recorded local connection is a connection of the block being dragged in
\* it; and the connect a pointerUp commits joins a connection of the block
\* just released.
C36_HighlightOfThisSession ==
  /\ [](highlightedConnection_ # Null =>
          /\ localConnection_ # Null
          /\ dragMode_ # 0
          /\ onMouseMoveWrapper_ = sourceBlock_[localConnection_])
  /\ [][(fx'.op = "mouseUp" /\ fx'.connects # << >>) =>
          sourceBlock_[fx'.connects[1].local] = fx'.block]_vars

\* C37: in every state the mouse-up and the mouse-move handler are bound
\* exactly when the drag mode is 1 or 2, and both or neither; and the drag
\* mode changes only to 1 in a pointerDown, from 1 to 2 in a pointerMove, and
\* to 0 in a handler that terminates the drag.
C37_HandlersIffSession ==
  /\ [](/\ Bound("mouseup") = Bound("mousemove")
        /\ (Bound("mouseup") # {}) <=> (dragMode_ \in {1, 2})
        /\ (onMouseUpWrapper_ # Null) <=> (dragMode_ \in {1, 2})
        /\ (onMouseMoveWrapper_ # Null) <=> (dragMode_ \in {1, 2}))
  /\ [][dragMode_' # dragMode_ =>
          \/ dragMode_' = 1 /\ fx'.op = "mouseDown"
          \/ dragMode_ = 1 /\ dragMode_' = 2 /\ fx'.op = "mouseMove"
          \/ dragMode_' = 0 /\ fx'.op \in {"mouseDown", "mouseUp", "dispose"}]_vars

\* C38: while a drag session is active the selected block is the block
\* whose handlers are bound, and a pointer event that terminates a FREE
\* session schedules the two deferred tasks for that block and for no other.
C38_SelectedIsDragged ==
  /\ [](dragMode_ # 0 =>
          /\ selected # Null
          /\ selected = onMouseUpWrapper_
          /\ Bound("mouseup") = {selected})
  /\ [][(fx'.op \in {"mouseDown", "mouseUp"} /\ dragMode_ = 2) =>
          /\ Len(fx'.scheduled) = 2
          /\ \A i \in DOMAIN fx'.scheduled :
               fx'.scheduled[i].block = onMouseUpWrapper_]_vars

\* C39: a snapToGrid of a block that comes immediately after a snapToGrid of
\* the same block moves nothing.
C39_SnapIdempotent ==
  [][(/\ fx.op \in {"snapToGrid", "callSnapToGrid"}
      /\ fx'.op \in {"snapToGrid", "callSnapToGrid"}
      /\ fx'.block = fx.block) =>
       /\ translate' = translate
       /\ connXY' = connXY]_vars

\* C40: B is top-level only once a FREE drag has detached it.  With snapping
\* enabled, whenever no drag is in progress and no grid-snap of B is pending,
\* a live top-level B lies on a grid point: the snap a release deferred is
\* not lost, so the released block comes to rest on the grid.
C40_RestsOnGrid ==
  (SnapApplies("B") /\ timers[<<"snapToGrid", "B">>] = 0) =>
    LET p == getRelativeToSurfaceXY(S, "B")
    IN  /\ CellShift(p[1], gridOptions.spacing) = 0
        /\ CellShift(p[2], gridOptions.spacing) = 0

====
